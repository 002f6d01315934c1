-------------------------- MODULE Replication_proofs --------------------------
(***************************************************************************)
(* Types, that the backlog serves every slave that may continue, that the  *)
(* offset of a slave names what it has, and that the stream completes its  *)
(* dataset, for every number of slaves, connections, databases and events  *)
(* and every size of the backlog.                                          *)
(***************************************************************************)
EXTENDS Replication, QueueFacts, TLAPS

(***************************************************************************)
(* The circular buffer holds the end of the stream however often it has    *)
(* wrapped, and sends each slave what follows the offset it asks for.      *)
(***************************************************************************)

\* A backlog of a stream of the members of S.
Backlogs(S) ==
  UNION {[size : {n}, buf : [0..n - 1 -> S], idx : 0..n - 1, histlen : 0..n,
          off : Nat \ {0}] : n \in Nat \ {0}}

LEMMA BacklogNumbers ==
  ASSUME NEW S, NEW b \in Backlogs(S)
  PROVE  /\ b.size \in Nat /\ b.idx \in Nat /\ b.histlen \in Nat /\ b.off \in Nat
         /\ b.size > 0 /\ b.idx < b.size /\ b.histlen <= b.size /\ b.off > 0
  BY DEF Backlogs

LEMMA BacklogBuf ==
  ASSUME NEW S, NEW b \in Backlogs(S)
  PROVE  b.buf \in [0..b.size - 1 -> S]
  BY DEF Backlogs

\* createReplicationBacklog: an empty buffer holds the end of any stream.
LEMMA NewHolds ==
  ASSUME NEW S, NEW fed \in Seq(S), NEW size \in Nat \ {0}, NEW nothing \in S
  PROVE  LET b == NewBacklog(size, Len(fed), nothing)
         IN b \in Backlogs(S) /\ b.size = size /\ Holds(b, fed)
<1> DEFINE b == NewBacklog(size, Len(fed), nothing)
<1>1. Len(fed) \in Nat
  BY LenProperties
<1>2. b \in [size : {size}, buf : [0..size - 1 -> S], idx : 0..size - 1,
             histlen : 0..size, off : Nat \ {0}]
  BY <1>1 DEF NewBacklog
<1>3. b \in Backlogs(S)
  BY <1>2 DEF Backlogs
<1>4. Holds(b, fed)
  BY <1>1 DEF NewBacklog, Holds
<1>5. QED
  BY <1>3, <1>4 DEF NewBacklog

\* feedReplicationBacklog keeps the newest cells and forgets the oldest.
LEMMA FeedHolds ==
  ASSUME NEW S, NEW fed \in Seq(S), NEW cell \in S,
         NEW b \in Backlogs(S), Holds(b, fed)
  PROVE  LET c == FeedBacklog(b, Len(fed) + 1, cell)
         IN /\ c \in Backlogs(S) /\ c.size = b.size /\ Holds(c, Append(fed, cell))
            /\ b.off <= c.off
<1> DEFINE L == Len(fed)
           len == Longer(b)
           idx == Wrap(b, b.idx + 1)
           buf == [b.buf EXCEPT ![b.idx] = cell]
           c == FeedBacklog(b, L + 1, cell)
           new == Append(fed, cell)
<1>1. /\ b.size \in Nat /\ b.idx \in Nat /\ b.histlen \in Nat
      /\ b.size > 0 /\ b.idx < b.size /\ b.histlen <= b.size
  BY BacklogNumbers
<1>2. b.buf \in [0..b.size - 1 -> S]
  BY BacklogBuf
<1>3. /\ L \in Nat /\ Len(new) = L + 1 /\ new[L + 1] = cell
      /\ \A i \in 1..L : new[i] = fed[i]
  BY LenProperties, AppendProperties
<1>4. b.histlen <= L
  BY DEF Holds
<1>5. \A k \in 0..b.histlen - 1 : b.buf[Before(b, k)] = fed[L - k]
  BY DEF Holds
<1>6. c.size = b.size /\ c.buf = buf /\ c.idx = idx /\ c.histlen = len
  BY DEF FeedBacklog
<1> HIDE DEF c, new, buf, L, len, idx
<1>8. len \in Nat /\ len > 0 /\ len <= b.size /\ len <= L + 1 /\ len <= b.histlen + 1
  <2>1. CASE b.histlen < b.size
    BY <1>1, <1>3, <1>4, <2>1 DEF Longer, len
  <2>2. CASE ~(b.histlen < b.size)
    BY <1>1, <1>3, <1>4, <2>2 DEF Longer, len
  <2>3. QED
    BY <2>1, <2>2
<1>7. c.off = L + 1 - len + 1
  BY <1>3, <1>8 DEF FeedBacklog, c, len
<1>9. /\ b.idx + 1 = b.size => idx = 0
      /\ b.idx + 1 # b.size => idx = b.idx + 1
      /\ idx \in Nat /\ idx < b.size
  BY <1>1 DEF Wrap, idx
<1>10. c \in Backlogs(S)
  <2>1. buf \in [0..b.size - 1 -> S]
    BY <1>2 DEF buf
  <2>2. L + 1 - len + 1 \in Nat \ {0}
    BY <1>3, <1>8
  <2>3. idx \in 0..b.size - 1 /\ len \in 0..b.size
    BY <1>1, <1>8, <1>9
  <2>4. c = [size |-> c.size, buf |-> c.buf, idx |-> c.idx, histlen |-> c.histlen,
             off |-> c.off]
    BY DEF c, FeedBacklog
  <2>5. c \in [size : {b.size}, buf : [0..b.size - 1 -> S], idx : 0..b.size - 1,
               histlen : 0..b.size, off : Nat \ {0}]
    BY <1>6, <1>7, <2>1, <2>2, <2>3, <2>4
  <2>6. b.size \in Nat \ {0}
    BY <1>1
  <2>7. QED
    BY <2>5, <2>6 DEF Backlogs
<1>11. ASSUME NEW k \in 0..len - 1
       PROVE  buf[Before(c, k)] = new[Len(new) - k]
  <2>1. k \in Nat /\ k < len
    BY <1>8
  <2>2. CASE k = 0
    <3>1. Before(c, k) = b.idx
      BY <1>1, <1>6, <1>9, <2>2 DEF Before
    <3>2. buf[b.idx] = cell
      BY <1>1, <1>2 DEF buf
    <3>3. Len(new) - k = L + 1
      BY <1>3, <2>2
    <3>4. QED
      BY <1>3, <3>1, <3>2, <3>3
  <2>3. CASE k # 0
    <3>1. k - 1 \in Nat /\ k - 1 < b.histlen /\ k < b.size
      BY <1>1, <1>8, <2>1, <2>3
    <3>2. Before(c, k) = Before(b, k - 1)
      <4>1. CASE b.idx + 1 = b.size
        BY <1>1, <1>6, <1>9, <2>1, <3>1, <4>1 DEF Before
      <4>2. CASE b.idx + 1 # b.size
        BY <1>1, <1>6, <1>9, <2>1, <3>1, <4>2, SMTT(20) DEF Before
      <4>3. QED
        BY <4>1, <4>2
    <3>3. Before(b, k - 1) # b.idx /\ Before(b, k - 1) \in 0..b.size - 1
      <4>1. CASE k - 1 < b.idx
        BY <1>1, <2>1, <3>1, <4>1 DEF Before
      <4>2. CASE ~(k - 1 < b.idx)
        BY <1>1, <2>1, <3>1, <4>2 DEF Before
      <4>3. QED
        BY <4>1, <4>2
    <3>4. buf[Before(c, k)] = b.buf[Before(b, k - 1)]
      BY <1>2, <3>2, <3>3 DEF buf
    <3>5. k - 1 \in 0..b.histlen - 1
      BY <1>1, <3>1
    <3>6. b.buf[Before(b, k - 1)] = fed[L - (k - 1)]
      BY <1>5, <3>5
    <3>7. Len(new) - k = L - (k - 1) /\ L - (k - 1) \in 1..L
      BY <1>1, <1>3, <1>4, <2>1, <3>1
    <3>8. QED
      BY <1>3, <3>4, <3>6, <3>7
  <2>4. QED
    BY <2>2, <2>3
<1>12. Holds(c, new)
  <2>1. c.off = Len(new) - len + 1 /\ len <= Len(new)
    BY <1>3, <1>7, <1>8
  <2>2. QED
    BY <1>6, <1>11, <2>1 DEF Holds
<1>13. b.off <= c.off
  <2>1. b.off = L - b.histlen + 1 /\ b.off \in Nat
    BY BacklogNumbers DEF Holds, L
  <2>2. QED
    BY <1>1, <1>3, <1>7, <1>8, <2>1
<1>14. QED
  BY <1>6, <1>10, <1>12, <1>13 DEF c, new, L

\* The cells of a command are appended one after the other.
LEMMA AppendedCells ==
  ASSUME NEW S, NEW fed \in Seq(S), NEW cells \in Seq(S), Len(cells) \in 1..3
  PROVE  LET s1 == Append(fed, cells[1])
             s2 == Append(s1, cells[2])
             s3 == Append(s2, cells[3])
         IN /\ Len(cells) = 1 => fed \o cells = s1
            /\ Len(cells) = 2 => fed \o cells = s2
            /\ Len(cells) = 3 => fed \o cells = s3
<1> DEFINE n == Len(fed)
           all == fed \o cells
           s1 == Append(fed, cells[1])
           s2 == Append(s1, cells[2])
           s3 == Append(s2, cells[3])
<1>1. /\ n \in Nat /\ cells[1] \in S
      /\ Len(cells) >= 2 => cells[2] \in S
      /\ Len(cells) >= 3 => cells[3] \in S
  BY LenProperties, ElementOfSeq
<1>2. /\ all \in Seq(S) /\ Len(all) = n + Len(cells)
      /\ \A i \in 1..n : all[i] = fed[i]
      /\ \A i \in 1..Len(cells) : all[n + i] = cells[i]
  <2>1. \A i \in 1..n + Len(cells) :
          all[i] = IF i <= n THEN fed[i] ELSE cells[i - n]
    BY ConcatProperties
  <2>2. all \in Seq(S) /\ Len(all) = n + Len(cells)
    BY ConcatProperties
  <2> HIDE DEF all, n
  <2>3. \A i \in 1..n : all[i] = fed[i]
    BY <1>1, <2>1
  <2>4. ASSUME NEW i \in 1..Len(cells)
        PROVE  all[n + i] = cells[i]
    <3> DEFINE m == n + i
    <3>1. m \in 1..n + Len(cells) /\ ~(m <= n) /\ m - n = i
      BY <1>1
    <3> HIDE DEF m
    <3>2. all[m] = cells[m - n]
      BY <2>1, <3>1
    <3>3. QED
      BY <3>1, <3>2 DEF m
  <2>5. QED
    BY <2>2, <2>3, <2>4
<1>3. /\ s1 \in Seq(S) /\ Len(s1) = n + 1 /\ s1[n + 1] = cells[1]
      /\ \A i \in 1..n : s1[i] = fed[i]
  BY <1>1, AppendProperties
<1>4. CASE Len(cells) = 1
  <2> HIDE DEF s1, all, n
  <2>1. \A i \in 1..n + 1 : all[i] = s1[i]
    <3>1. \A i \in 1..n + 1 : i \in 1..n \/ i = n + 1
      BY <1>1
    <3>2. QED
      BY <1>2, <1>3, <1>4, <3>1
  <2>2. all = s1
    BY <1>2, <1>3, <1>4, <2>1, SeqEqual
  <2>3. QED
    BY <1>4, <2>2 DEF s1, all
<1>5. ASSUME Len(cells) \in 2..3
      PROVE  /\ s2 \in Seq(S) /\ Len(s2) = n + 2
             /\ \A i \in 1..n + 2 : s2[i] = all[i]
  <2> HIDE DEF s1, all, n
  <2>1. cells[2] \in S
    BY <1>1, <1>5
  <2>2. /\ s2 \in Seq(S) /\ Len(s2) = n + 2 /\ s2[n + 2] = cells[2]
        /\ \A i \in 1..n + 1 : s2[i] = s1[i]
    BY <1>1, <1>3, <2>1, AppendProperties
  <2>3. \A i \in 1..n + 2 : i \in 1..n \/ i = n + 1 \/ i = n + 2
    BY <1>1
  <2>4. /\ 1 \in 1..Len(cells) /\ 2 \in 1..Len(cells)
        /\ \A i \in 1..n : i \in 1..n + 1
        /\ n + 1 \in 1..n + 1
    <3>1. \A m \in 2..3 : 1 \in 1..m /\ 2 \in 1..m
      OBVIOUS
    <3>2. 1 \in 1..Len(cells) /\ 2 \in 1..Len(cells)
      BY <1>5, <3>1
    <3>3. n + 1 \in 1..n + 1 /\ \A i \in 1..n : i \in 1..n + 1
      BY <1>1
    <3>4. QED
      BY <3>2, <3>3
  <2> HIDE DEF s2
  <2>5. QED
    BY <1>2, <1>3, <2>2, <2>3, <2>4
<1>6. CASE Len(cells) = 2
  <2> HIDE DEF s2, all, n
  <2>1. all = s2
    BY <1>2, <1>5, <1>6, SeqEqual
  <2>2. QED
    BY <1>6, <2>1 DEF s2, all
<1>7. CASE Len(cells) = 3
  <2> HIDE DEF s2, all, n
  <2>1. cells[3] \in S
    BY <1>1, <1>7
  <2>2. /\ s3 \in Seq(S) /\ Len(s3) = n + 3 /\ s3[n + 3] = cells[3]
        /\ \A i \in 1..n + 2 : s3[i] = s2[i]
    BY <1>1, <1>5, <1>7, <2>1, AppendProperties
  <2>3. \A i \in 1..n + 3 : i \in 1..n + 2 \/ i = n + 3
    BY <1>1
  <2> HIDE DEF s3
  <2>4. \A i \in 1..n + 3 : all[i] = s3[i]
    BY <1>2, <1>5, <1>7, <2>2, <2>3
  <2>5. all = s3
    BY <1>2, <1>7, <2>2, <2>4, SeqEqual
  <2>6. QED
    BY <1>7, <2>5 DEF s3, s2, all
<1>8. QED
  BY <1>4, <1>6, <1>7

\* The same of a command and the SELECT before it.
LEMMA FeedCellsHolds ==
  ASSUME NEW S, NEW fed \in Seq(S), NEW cells \in Seq(S), Len(cells) \in 1..3,
         NEW b \in Backlogs(S), Holds(b, fed)
  PROVE  LET c == FeedCells(b, Len(fed), cells)
         IN /\ c \in Backlogs(S) /\ c.size = b.size /\ Holds(c, fed \o cells)
            /\ b.off <= c.off
<1> DEFINE n == Len(fed)
           b1 == FeedBacklog(b, n + 1, cells[1])
           b2 == FeedBacklog(b1, n + 2, cells[2])
           b3 == FeedBacklog(b2, n + 3, cells[3])
           s1 == Append(fed, cells[1])
           s2 == Append(s1, cells[2])
           s3 == Append(s2, cells[3])
<1>1. /\ n \in Nat /\ s1 \in Seq(S) /\ cells[1] \in S
      /\ Len(s1) = n + 1 /\ Len(s1) + 1 = n + 2
  BY LenProperties, AppendProperties, ElementOfSeq
<1>2. b1 \in Backlogs(S) /\ b1.size = b.size /\ Holds(b1, s1) /\ b.off <= b1.off
  BY <1>1, FeedHolds
<1>3. CASE Len(cells) = 1
  <2>1. fed \o cells = s1
    BY <1>3, AppendedCells
  <2>2. QED
    BY <1>2, <1>3, <2>1 DEF FeedCells
<1>4. ASSUME Len(cells) \in 2..3
      PROVE  /\ s2 \in Seq(S) /\ Len(s2) = n + 2 /\ Len(s2) + 1 = n + 3
             /\ b2 \in Backlogs(S) /\ b2.size = b.size /\ Holds(b2, s2)
             /\ b.off <= b2.off
  <2>1. cells[2] \in S
    BY <1>4, ElementOfSeq
  <2>2. b2 = FeedBacklog(b1, Len(s1) + 1, cells[2])
    BY <1>1
  <2> HIDE DEF b1, b2, s1
  <2>3. b2 \in Backlogs(S) /\ b2.size = b1.size /\ Holds(b2, s2) /\ b1.off <= b2.off
    BY <1>1, <1>2, <2>1, <2>2, FeedHolds
  <2>6. b.off \in Nat /\ b1.off \in Nat /\ b2.off \in Nat
    BY <1>2, <2>3, BacklogNumbers
  <2>4. s2 \in Seq(S) /\ Len(s2) = n + 2 /\ Len(s2) + 1 = n + 3
    BY <1>1, <2>1, AppendProperties
  <2>5. QED
    BY <1>2, <2>3, <2>4, <2>6
<1>5. CASE Len(cells) = 2
  <2>1. fed \o cells = s2
    BY <1>5, AppendedCells
  <2>2. QED
    BY <1>4, <1>5, <2>1 DEF FeedCells
<1>6. CASE Len(cells) = 3
  <2>1. fed \o cells = s3
    BY <1>6, AppendedCells
  <2>2. cells[3] \in S
    BY <1>6, ElementOfSeq
  <2>3. b3 = FeedBacklog(b2, Len(s2) + 1, cells[3])
    BY <1>4, <1>6
  <2>4. FeedCells(b, n, cells) = b3
    BY <1>6 DEF FeedCells
  <2> HIDE DEF b2, b3, s2
  <2>5. b3 \in Backlogs(S) /\ b3.size = b2.size /\ Holds(b3, s3) /\ b2.off <= b3.off
    BY <1>4, <1>6, <2>2, <2>3, FeedHolds
  <2>7. b.off \in Nat /\ b2.off \in Nat /\ b3.off \in Nat
    BY <1>4, <1>6, <2>5, BacklogNumbers
  <2>6. QED
    BY <1>4, <1>6, <2>1, <2>4, <2>5, <2>7
<1>7. QED
  BY <1>3, <1>5, <1>6

\* The place of the k-th cell that is sent, from the oldest and from the newest.
LEMMA SamePlace ==
  ASSUME NEW size \in Nat, NEW idx \in Nat, NEW histlen \in Nat, NEW skip \in Nat,
         NEW first \in Nat, NEW j \in Nat, NEW k \in Nat, NEW back \in Nat,
         idx < size, histlen <= size, skip <= histlen, first < size, j < size,
         histlen <= idx => first = idx - histlen,
         histlen > idx => first = idx + size - histlen,
         first + skip >= size => j = first + skip - size,
         first + skip < size => j = first + skip,
         k > 0, back = histlen - skip - k
  PROVE  /\ back < idx /\ j + (k - 1) >= size => idx - 1 - back = j + (k - 1) - size
         /\ back < idx /\ j + (k - 1) < size => idx - 1 - back = j + (k - 1)
         /\ back >= idx => j + (k - 1) < size /\ idx + size - 1 - back = j + (k - 1)
  OBVIOUS

\* addReplyReplicationBacklog: what it sends is the rest of the stream.
LEMMA HoldsServes ==
  ASSUME NEW S, NEW fed \in Seq(S), NEW b \in Backlogs(S), Holds(b, fed)
  PROVE  SendsTheStream(b, fed)
<1> SUFFICES ASSUME NEW offset \in 1..Len(fed) + 1, HasOffset(b, offset)
             PROVE  FromBacklog(b, offset) = SubSeq(fed, offset, Len(fed))
  BY DEF SendsTheStream
<1> DEFINE L == Len(fed)
           size == b.size
           idx == b.idx
           histlen == b.histlen
           off == b.off
           skip == offset - off
           first == Wrap(b, idx + (size - histlen))
           j == Wrap(b, first + skip)
           n == histlen - skip
<1>1. /\ size \in Nat /\ idx \in Nat /\ histlen \in Nat /\ off \in Nat
      /\ size > 0 /\ idx < size /\ histlen <= size
  BY BacklogNumbers
<1>2. L \in Nat /\ histlen <= L /\ off = L - histlen + 1
  BY LenProperties DEF Holds
<1>3. offset \in Nat /\ offset > 0 /\ off <= offset /\ offset <= off + histlen
  BY <1>2 DEF HasOffset
<1>4. FromBacklog(b, offset) = [k \in 1..n |-> b.buf[Wrap(b, j + (k - 1))]]
  BY DEF FromBacklog
<1>5. \A k \in 0..histlen - 1 : b.buf[Before(b, k)] = fed[L - k]
  BY DEF Holds
<1>6. \A i : Wrap(b, i) = IF i >= size THEN i - size ELSE i
  BY DEF Wrap
<1>7. \A k : Before(b, k) = IF k < idx THEN idx - 1 - k ELSE idx + size - 1 - k
  BY DEF Before
<1> HIDE DEF L, size, idx, histlen, off
<1>8. /\ skip \in Nat /\ skip <= histlen /\ skip = offset - off
      /\ n \in Nat /\ n = histlen - skip /\ n = L - offset + 1
  BY <1>1, <1>2, <1>3
<1> HIDE DEF skip, first, j, n
<1>9. SubSeq(fed, offset, L) = [k \in 1..n |-> fed[offset + k - 1]]
  <2>1. 1..L - offset + 1 = 1..n
    BY <1>8
  <2>2. offset \in 1..L + 1
    BY <1>2, <1>3 DEF L
  <2>3. SubSeq(fed, offset, L)
          = [k \in 1..L - offset + 1 |-> fed[offset + k - 1]]
    BY <1>2, <2>2, SubSeqProperties DEF L
  <2>4. QED
    BY <2>1, <2>3
<1>10. /\ first \in Nat /\ first < size
       /\ histlen <= idx => first = idx - histlen
       /\ histlen > idx => first = idx + size - histlen
  BY <1>1, <1>6 DEF first
<1>11. /\ first + skip >= size => j = first + skip - size
       /\ first + skip < size => j = first + skip
       /\ j \in Nat /\ j < size
  BY <1>1, <1>6, <1>8, <1>10 DEF j
<1>12. ASSUME NEW k \in 1..n
       PROVE  b.buf[Wrap(b, j + (k - 1))] = fed[offset + k - 1]
  <2> DEFINE back == n - k
  <2>1. k \in Nat /\ k > 0 /\ k <= n
    BY <1>8
  <2>2. /\ back \in 0..histlen - 1 /\ back \in Nat /\ L - back = offset + k - 1
        /\ back = histlen - skip - k
    BY <1>1, <1>2, <1>3, <1>8, <2>1
  <2> HIDE DEF back
  <2>3. b.buf[Before(b, back)] = fed[L - back]
    BY <1>5, <2>2
  <2>4. Before(b, back) = Wrap(b, j + (k - 1))
    <3>1. /\ back < idx /\ j + (k - 1) >= size => idx - 1 - back = j + (k - 1) - size
          /\ back < idx /\ j + (k - 1) < size => idx - 1 - back = j + (k - 1)
          /\ back >= idx => j + (k - 1) < size /\ idx + size - 1 - back = j + (k - 1)
      BY <1>1, <1>8, <1>10, <1>11, <2>1, <2>2, SamePlace
    <3>2. CASE back < idx /\ j + (k - 1) >= size
      BY <1>1, <1>6, <1>7, <1>11, <2>1, <2>2, <3>1, <3>2
    <3>3. CASE back < idx /\ j + (k - 1) < size
      BY <1>1, <1>6, <1>7, <1>11, <2>1, <3>1, <3>3
    <3>4. CASE back >= idx
      BY <1>1, <1>6, <1>7, <1>11, <2>1, <2>2, <3>1, <3>4
    <3>5. QED
      BY <1>1, <1>11, <2>1, <2>2, <3>2, <3>3, <3>4
  <2>5. QED
    BY <2>2, <2>3, <2>4
<1>13. QED
  BY <1>4, <1>9, <1>12 DEF L

-----------------------------------------------------------------------------
(***************************************************************************)
(* The invariant of the types and of the backlog.                          *)
(***************************************************************************)

Datasets == Seq([id : Nat, db : Nat])
Cells == [kind : {"select", "head", "tail"}, db : Dbs, id : Nat, len : Nat]
         \cup [kind : {"ping", "void"}, db : Dbs \cup {NoDb}, id : Nat, len : Nat]
Items == Cells \cup {Continue}
         \cup [kind : {"fullresync"}, runid : Nat, offset : Nat,
               origin : {"own", "shared"}]
         \cup [kind : {"rdb"}, data : Datasets]
Clients == [state : {"none", "start", "end", "bulk", "online"}, buf : Seq(Cells),
            rdb : Datasets]
SlaveStates ==
  [state : {"none", "connect", "psync", "transfer", "connected"},
   conn : Conns \cup {NoConn}, data : Datasets, db : Dbs, half : BOOLEAN,
   runid : Nat, reploff : Nat, origin : {"own", "shared", "resumed"}]
SlaveOK(x) ==
  /\ x \in SlaveStates
  /\ (x.conn = NoConn) = (x.state \in {"none", "connect"})

\* The inductive invariant.
BacklogOK == IF backlog = NoBacklog THEN Attached = {}
             ELSE backlog \in Backlogs(Cells) /\ Holds(backlog, stream)
StreamOK == /\ stream \in Seq(Cells) /\ slaveseldb \in Dbs \cup {NoDb}
            /\ writes \in Nat /\ BacklogOK
DataOK == /\ mdata \in Datasets /\ dump \in Datasets
          /\ child \in Datasets \cup {NoChild} /\ runid \in Nat
ClientOK == client \in [Conns -> Clients]
WireOK == wire \in [Conns -> Seq(Items)]
SlavesOK == /\ DOMAIN slave = Slaves
            /\ \A s \in Slaves : SlaveOK(slave[s])
IInv == StreamOK /\ DataOK /\ ClientOK /\ WireOK /\ SlavesOK

-----------------------------------------------------------------------------
\* Every member of Backlogs is a backlog.
LEMMA SomeBacklog == \A b \in Backlogs(Cells) : b # NoBacklog
  BY BacklogNumbers DEF NoBacklog

LEMMA EmptyOK == <<>> \in Datasets /\ NoClient \in Clients
  BY EmptySeq DEF Datasets, NoClient, Clients

LEMMA CellsAreItems == \A q \in Seq(Cells) : q \in Seq(Items)
  BY SeqMonotonic DEF Items

LEMMA AsksOK ==
  ASSUME NEW x, SlaveOK(x), NEW c \in Conns
  PROVE  SlaveOK(Asks(x, c))
<1> DEFINE y == Asks(x, c)
<1>1. c # NoConn
  BY ReplicationConstants
<1>2. y \in SlaveStates /\ y.conn = c /\ y.state = "psync"
  BY DEF Asks, SlaveOK, SlaveStates
<1> HIDE DEF y
<1>3. SlaveOK(y)
  BY <1>1, <1>2 DEF SlaveOK
<1>4. QED
  BY <1>3 DEF y

LEMMA InitOK == Init => IInv
<1> SUFFICES ASSUME Init PROVE IInv
  OBVIOUS
<1>1. StreamOK
  <2>1. Attached = {}
    BY DEF Init, Attached, NoClient
  <2>2. QED
    BY <2>1, EmptySeq DEF Init, StreamOK, BacklogOK
<1>2. DataOK
  BY EmptyOK DEF Init, DataOK
<1>3. ClientOK /\ WireOK
  BY EmptyOK, EmptySeq DEF Init, ClientOK, WireOK
<1>4. SlavesOK
  BY EmptyOK, ReplicationConstants
     DEF Init, NewSlave, SlavesOK, SlaveOK, SlaveStates, NoConn, NoRun
<1>5. QED
  BY <1>1, <1>2, <1>3, <1>4 DEF IInv

LEMMA DataLength == IInv => Len(mdata) \in Nat
  BY LenProperties DEF IInv, DataOK, Datasets

\* What is appended to the stream: one to three cells, of which the backlog
\* gets each, and every slave some.
LEMMA FeedsOK ==
  ASSUME IInv, NEW db \in Dbs \cup {NoDb}, db = NoDb => slaveseldb = NoDb,
         NEW cells \in Seq(Cells), Len(cells) \in 1..2, FeedSlaves(db, cells),
         writes' \in Nat
  PROVE  StreamOK' /\ ClientOK' /\ WireOK'
<1> DEFINE sel == IF slaveseldb = db THEN <<>> ELSE <<Cell("select", db, 0, Len(mdata))>>
           all == sel \o cells
<1>1. sel \in Seq(Cells) /\ Len(sel) \in 0..1
  <2>1. CASE slaveseldb = db
    BY <2>1, EmptySeq
  <2>2. CASE slaveseldb # db
    <3>1. Cell("select", db, 0, Len(mdata)) \in Cells
      BY <2>2, DataLength DEF IInv, StreamOK, Cell, Cells
    <3>2. QED
      BY <2>2, <3>1
  <2>3. QED
    BY <2>1, <2>2
<1>2. all \in Seq(Cells) /\ Len(all) \in 1..3
  <2> HIDE DEF sel
  <2>1. all \in Seq(Cells) /\ Len(all) = Len(sel) + Len(cells)
    BY <1>1, ConcatProperties
  <2> HIDE DEF all
  <2>2. Len(all) \in 1..3
    <3>1. \A m \in 0..1, n \in 1..2 : m + n \in 1..3
      OBVIOUS
    <3>2. QED
      BY <1>1, <2>1, <3>1
  <2>3. QED
    BY <2>1, <2>2
<1> DEFINE For(state) == IF state = "start" THEN sel ELSE all
<1>3. ASSUME NEW state
      PROVE  For(state) \in Seq(Cells)
  <2> HIDE DEF sel, all
  <2>1. QED
    BY <1>1, <1>2
<1>4. CASE backlog = NoBacklog /\ Attached = {}
  <2>1. UNCHANGED <<stream, backlog, slaveseldb, client, wire>>
    BY <1>4 DEF FeedSlaves
  <2>2. QED
    BY <2>1 DEF IInv, StreamOK, BacklogOK, Attached, ClientOK, WireOK
<1>5. CASE ~(backlog = NoBacklog /\ Attached = {})
  <2>1. /\ stream' = stream \o all
        /\ backlog' = FeedCells(backlog, Len(stream), all)
        /\ slaveseldb' = db
        /\ client' = [c \in Conns |->
             IF client[c].state \in {"none", "online"} THEN client[c]
             ELSE [client[c] EXCEPT !.buf = @ \o For(client[c].state)]]
        /\ wire' = [c \in Conns |->
             IF client[c].state = "online" THEN wire[c] \o all ELSE wire[c]]
    BY <1>5 DEF FeedSlaves
  <2> HIDE DEF sel, all, For
  <2>2. stream \in Seq(Cells) /\ backlog \in Backlogs(Cells) /\ Holds(backlog, stream)
    BY <1>5 DEF IInv, StreamOK, BacklogOK
  <2>3. backlog' \in Backlogs(Cells) /\ Holds(backlog', stream')
    BY <1>2, <2>1, <2>2, FeedCellsHolds
  <2>4. StreamOK'
    <3>1. stream' \in Seq(Cells)
      BY <1>2, <2>1, <2>2, ConcatProperties
    <3>2. BacklogOK'
      BY <2>3, SomeBacklog DEF BacklogOK
    <3>3. QED
      BY <2>1, <3>1, <3>2 DEF StreamOK
  <2>5. ClientOK'
    <3>1. ASSUME NEW c \in Conns
          PROVE  [client[c] EXCEPT !.buf = @ \o For(client[c].state)] \in Clients
      <4>1. client[c] \in Clients /\ client[c].buf \in Seq(Cells)
        BY DEF IInv, ClientOK, Clients
      <4>2. client[c].buf \o For(client[c].state) \in Seq(Cells)
        BY <1>3, <4>1, ConcatProperties
      <4>3. QED
        BY <4>1, <4>2 DEF Clients
    <3>2. QED
      BY <2>1, <3>1 DEF IInv, ClientOK
  <2>6. WireOK'
    <3>1. ASSUME NEW c \in Conns
          PROVE  wire[c] \o all \in Seq(Items)
      BY <1>2, CellsAreItems, ConcatProperties DEF IInv, WireOK
    <3>2. QED
      BY <2>1, <3>1 DEF IInv, WireOK
  <2>7. QED
    BY <2>4, <2>5, <2>6
<1>6. QED
  BY <1>4, <1>5

-----------------------------------------------------------------------------
LEMMA WriteOK ==
  ASSUME IInv, NEW db \in Dbs, Write(db)
  PROVE  IInv'
<1> DEFINE len == Len(mdata)
           cells == <<Cell("head", db, writes + 1, len),
                      Cell("tail", db, writes + 1, len + 1)>>
<1>1. writes \in Nat /\ writes' = writes + 1 /\ len \in Nat
  BY DataLength DEF IInv, StreamOK, Write
<1>2. cells \in Seq(Cells) /\ Len(cells) = 2
  <2>1. /\ Cell("head", db, writes + 1, len) \in Cells
        /\ Cell("tail", db, writes + 1, len + 1) \in Cells
    BY <1>1 DEF Cell, Cells
  <2>2. QED
    BY <2>1
<1>3. FeedSlaves(db, cells)
  BY DEF Write
<1>4. db # NoDb
  BY ReplicationConstants DEF NoDb
<1>5. StreamOK' /\ ClientOK' /\ WireOK'
  <2> HIDE DEF cells
  <2>1. QED
    BY <1>1, <1>2, <1>3, <1>4, FeedsOK
<1>6. DataOK'
  <2>1. [id |-> writes + 1, db |-> db] \in [id : Nat, db : Nat]
    BY <1>1, ReplicationConstants
  <2>2. mdata' \in Datasets
    BY <2>1, AppendProperties DEF Write, IInv, DataOK, Datasets
  <2>3. QED
    BY <2>2 DEF Write, IInv, DataOK
<1>7. SlavesOK'
  BY DEF Write, IInv, SlavesOK
<1>8. QED
  BY <1>5, <1>6, <1>7 DEF IInv

LEMMA PingOK ==
  ASSUME IInv, Ping
  PROVE  IInv'
<1> DEFINE cells == <<Cell("ping", slaveseldb, 0, Len(mdata))>>
<1>1. writes \in Nat /\ writes' = writes /\ slaveseldb \in Dbs \cup {NoDb}
      /\ Len(mdata) \in Nat
  BY DataLength DEF IInv, StreamOK, Ping
<1>2. cells \in Seq(Cells) /\ Len(cells) = 1
  <2>1. Cell("ping", slaveseldb, 0, Len(mdata)) \in Cells
    BY <1>1 DEF Cell, Cells
  <2>2. QED
    BY <2>1
<1>3. FeedSlaves(slaveseldb, cells)
  BY DEF Ping
<1>4. StreamOK' /\ ClientOK' /\ WireOK'
  <2> HIDE DEF cells
  <2>1. QED
    BY <1>1, <1>2, <1>3, FeedsOK
<1>5. DataOK' /\ SlavesOK'
  BY DEF Ping, IInv, DataOK, SlavesOK
<1>6. QED
  BY <1>4, <1>5 DEF IInv

\* What PSYNC asks for, the backlog has, or else it is not sent.
\* What the backlog answers to an offset it accepts.
LEMMA Served ==
  ASSUME IInv, backlog # NoBacklog, NEW n \in Nat, HasOffset(backlog, n + 1)
  PROVE  LET q == FromBacklog(backlog, n + 1)
         IN /\ q \in Seq(Cells) /\ n + Len(q) = Len(stream)
            /\ \A k \in 1..Len(q) : q[k] = stream[n + k]
            /\ backlog.off <= n + 1 /\ backlog.off \in Nat
<1> DEFINE L == Len(stream)
           b == backlog
           m == n + 1
           q == FromBacklog(b, m)
<1>1. b \in Backlogs(Cells) /\ Holds(b, stream) /\ stream \in Seq(Cells)
  BY DEF IInv, StreamOK, BacklogOK
<1>2. b.off \in Nat /\ b.histlen \in Nat /\ L \in Nat
  BY <1>1, BacklogNumbers, LenProperties
<1>3. b.off = L - b.histlen + 1
  BY <1>1 DEF Holds
<1>4. b.off <= m /\ m <= b.off + b.histlen /\ HasOffset(b, m)
  BY DEF HasOffset
<1> HIDE DEF L, b
<1>5. m \in 1..L + 1
  BY <1>2, <1>3, <1>4
<1>6. SendsTheStream(b, stream)
  BY <1>1, HoldsServes
<1> HIDE DEF m
<1>7. q = SubSeq(stream, m, L)
  BY <1>4, <1>5, <1>6 DEF SendsTheStream, L
<1>8. \A i \in m..L : stream[i] \in Cells
  BY <1>1, <1>2, <1>5, ElementOfSeq DEF L
<1>9. m \in Int /\ L \in Int
  BY <1>2, <1>5
<1> HIDE DEF q
<1>10. q \in Seq(Cells) /\ Len(q) = (IF m <= L THEN L - m + 1 ELSE 0)
       /\ \A k \in 1..L - m + 1 : q[k] = stream[m + k - 1]
  BY <1>7, <1>8, <1>9, SubSeqProperties
<1>11. Len(q) = L - n /\ n + Len(q) = L
  BY <1>2, <1>5, <1>10 DEF m
<1>12. ASSUME NEW k \in 1..Len(q) PROVE q[k] = stream[n + k]
  <2>1. k \in 1..L - m + 1 /\ m + k - 1 = n + k
    BY <1>2, <1>5, <1>11 DEF m
  <2>2. QED
    BY <1>10, <2>1
<1>13. QED
  BY <1>2, <1>4, <1>10, <1>11, <1>12 DEF q, m, b, L

LEMMA PartialSyncOK ==
  ASSUME IInv, NEW s \in Slaves, NEW c \in Conns, PartialSync(s, c)
  PROVE  IInv'
<1>1. SlaveOK(slave[s]) /\ slave[s].reploff \in Nat
  BY DEF IInv, SlavesOK, SlaveOK, SlaveStates
<1>2. FromBacklog(backlog, slave[s].reploff + 1) \in Seq(Cells)
  BY <1>1, Served DEF PartialSync, MayContinue
<1>3. WireOK'
  <2>1. <<Continue>> \in Seq(Items)
    BY DEF Items
  <2>2. <<Continue>> \o FromBacklog(backlog, slave[s].reploff + 1) \in Seq(Items)
    BY <1>2, <2>1, CellsAreItems, ConcatProperties
  <2>3. QED
    BY <2>2 DEF PartialSync, IInv, WireOK
<1>4. ClientOK'
  <2>1. [NoClient EXCEPT !.state = "online"] \in Clients
    BY EmptyOK DEF Clients
  <2>2. QED
    BY <2>1 DEF PartialSync, IInv, ClientOK
<1>5. StreamOK' /\ DataOK'
  <2>1. backlog # NoBacklog
    BY DEF PartialSync, MayContinue
  <2>2. QED
    BY <2>1 DEF PartialSync, masterVars, IInv, StreamOK, BacklogOK, DataOK
<1>6. SlavesOK'
  <2>1. SlaveOK(Asks(slave[s], c))
    BY <1>1, AsksOK
  <2>2. QED
    BY <2>1 DEF PartialSync, Connects, IInv, SlavesOK
<1>7. QED
  BY <1>3, <1>4, <1>5, <1>6 DEF IInv

LEMMA FullSyncOK ==
  ASSUME IInv, NEW s \in Slaves, NEW c \in Conns, FullSync(s, c)
  PROVE  IInv'
<1> DEFINE void(len) == Cell("void", NoDb, 0, len)
           offset == Len(stream) + (IF backlog = NoBacklog THEN 1 ELSE 0)
           origin == IF child = NoChild THEN "own" ELSE "shared"
<1>1. StreamOK'
  <2>1. stream \in Seq(Cells) /\ writes \in Nat /\ BacklogOK /\ Len(mdata) \in Nat
    BY DataLength DEF IInv, StreamOK
  <2>2. void(Len(mdata)) \in Cells /\ void(0) \in Cells
    BY <2>1 DEF Cell, Cells
  <2>3. slaveseldb' \in Dbs \cup {NoDb} /\ writes' \in Nat
    BY <2>1 DEF FullSync, AfterSync
  <2>4. CASE backlog = NoBacklog
    <3>1. Attached = {}
      BY <2>1, <2>4 DEF BacklogOK
    <3>2. /\ stream' = Append(stream, void(Len(mdata)))
          /\ backlog' = NewBacklog(Size, Len(stream) + 1, void(0))
      BY <2>4, <3>1 DEF FullSync
    <3> HIDE DEF void
    <3>3. stream' \in Seq(Cells) /\ Len(stream') = Len(stream) + 1
      BY <2>1, <2>2, <3>2, AppendProperties
    <3>4. backlog' \in Backlogs(Cells) /\ Holds(backlog', stream')
      BY <2>2, <3>2, <3>3, NewHolds, ReplicationConstants
    <3>5. BacklogOK'
      BY <3>4, SomeBacklog DEF BacklogOK
    <3>6. QED
      BY <2>3, <3>3, <3>5 DEF StreamOK
  <2>5. CASE backlog # NoBacklog
    <3>1. UNCHANGED <<stream, backlog>>
      BY <2>5 DEF FullSync
    <3>2. BacklogOK'
      BY <2>1, <2>5, <3>1 DEF BacklogOK
    <3>3. QED
      BY <2>1, <2>3, <3>1, <3>2 DEF StreamOK
  <2>6. QED
    BY <2>4, <2>5
<1>2. DataOK'
  BY DEF FullSync, IInv, DataOK
<1>3. ClientOK'
  <2>1. \A state \in {"end", "start"} : [NoClient EXCEPT !.state = state] \in Clients
    BY EmptyOK DEF Clients
  <2>2. ASSUME NEW d \in Conns
        PROVE  JoinBgsave(d) \in Clients
    <3>1. client[d].buf \in Seq(Cells)
      BY DEF IInv, ClientOK, Clients
    <3>2. QED
      BY <3>1, EmptyOK DEF JoinBgsave, Clients
  <2>3. PICK new \in IF child = NoChild THEN {[NoClient EXCEPT !.state = "end"]}
                    ELSE IF In("end") # {} THEN {JoinBgsave(d) : d \in In("end")}
                    ELSE {[NoClient EXCEPT !.state = "start"]} :
               client' = [client EXCEPT ![c] = new]
    BY DEF FullSync
  <2>4. new \in Clients
    BY <2>1, <2>2, <2>3 DEF In
  <2>5. QED
    BY <2>3, <2>4 DEF IInv, ClientOK
<1>4. WireOK'
  <2>1. runid \in Nat /\ offset \in Nat /\ origin \in {"own", "shared"}
    BY LenProperties DEF IInv, StreamOK, DataOK
  <2>2. wire' = [wire EXCEPT ![c] = <<FullResync(runid, offset, origin)>>]
    BY DEF FullSync
  <2> HIDE DEF offset, origin
  <2>3. FullResync(runid, offset, origin) \in Items
    BY <2>1 DEF FullResync, Items
  <2>4. QED
    BY <2>2, <2>3 DEF IInv, WireOK
<1>5. SlavesOK'
  <2>1. SlaveOK(slave[s])
    BY DEF IInv, SlavesOK
  <2>2. SlaveOK(Asks(slave[s], c))
    BY <2>1, AsksOK
  <2>3. QED
    BY <2>2 DEF FullSync, Connects, IInv, SlavesOK
<1>6. QED
  BY <1>1, <1>2, <1>3, <1>4, <1>5 DEF IInv

-----------------------------------------------------------------------------
\* Without a backlog nobody is attached, and nobody attaches.
LEMMA ClientsLeave ==
  ASSUME StreamOK, UNCHANGED <<stream, backlog, slaveseldb, writes>>,
         Attached' \subseteq Attached
  PROVE  StreamOK'
  BY DEF StreamOK, BacklogOK

LEMMA BgsaveDoneOK ==
  ASSUME IInv, NEW ok \in BOOLEAN, BgsaveDone(ok)
  PROVE  IInv'
<1>1. /\ child \in Datasets /\ mdata \in Datasets /\ dump \in Datasets
      /\ \A c \in Conns : client[c] \in Clients
  BY DEF IInv, DataOK, ClientOK, BgsaveDone
<1>2. ASSUME NEW c \in Conns
      PROVE  client'[c] \in Clients /\ (client[c].state = "none" => client'[c] = client[c])
  <2> DEFINE x == client[c]
  <2>1. x \in Clients
    BY <1>1
  <2>2. client'[c] = CASE x.state = "start" -> [x EXCEPT !.state = "end"]
         [] x.state = "end" /\ ok -> [x EXCEPT !.state = "bulk", !.rdb = child]
         [] x.state = "end" /\ ~ok -> NoClient
         [] OTHER -> x
    BY DEF BgsaveDone
  <2> HIDE DEF x
  <2>3. CASE x.state = "start"
    <3>1. client'[c] = [x EXCEPT !.state = "end"]
      BY <2>2, <2>3, Zenon
    <3>2. QED
      BY <2>1, <2>3, <3>1 DEF Clients, x
  <2>4. CASE x.state = "end" /\ ok
    <3>1. client'[c] = [x EXCEPT !.state = "bulk", !.rdb = child]
      BY <2>2, <2>4, Zenon
    <3>2. QED
      BY <1>1, <2>1, <2>4, <3>1 DEF Clients, x
  <2>5. CASE x.state = "end" /\ ~ok
    <3>1. client'[c] = NoClient
      BY <2>2, <2>5, Zenon
    <3>2. QED
      BY <2>5, <3>1, EmptyOK DEF x
  <2>6. CASE x.state \notin {"start", "end"}
    <3>1. client'[c] = x
      BY <2>2, <2>6, Zenon
    <3>2. QED
      BY <2>1, <3>1 DEF x
  <2>7. QED
    BY <2>3, <2>4, <2>5, <2>6
<1>3. ClientOK'
  <2>1. client' = [c \in Conns |-> client'[c]]
    BY DEF BgsaveDone
  <2>2. QED
    BY <1>2, <2>1 DEF ClientOK
<1>4. StreamOK'
  <2>1. Attached' \subseteq Attached
    BY <1>2 DEF Attached
  <2>2. QED
    BY <2>1, ClientsLeave DEF IInv, BgsaveDone
<1>5. DataOK'
  BY <1>1 DEF IInv, DataOK, BgsaveDone, NextChild
<1>6. WireOK' /\ SlavesOK'
  BY DEF IInv, WireOK, SlavesOK, BgsaveDone
<1>7. QED
  BY <1>3, <1>4, <1>5, <1>6 DEF IInv

LEMMA SendBulkOK ==
  ASSUME IInv, NEW c \in Conns, SendBulk(c)
  PROVE  IInv'
<1>1. client[c] \in Clients /\ client[c].buf \in Seq(Cells) /\ client[c].rdb \in Datasets
  BY DEF IInv, ClientOK, Clients
<1>2. WireOK'
  <2>1. Rdb(client[c].rdb) \in Items
    BY <1>1 DEF Rdb, Items
  <2>2. <<Rdb(client[c].rdb)>> \in Seq(Items) /\ client[c].buf \in Seq(Items)
    BY <1>1, <2>1, CellsAreItems
  <2>3. wire[c] \in Seq(Items)
    BY DEF IInv, WireOK
  <2>4. wire[c] \o <<Rdb(client[c].rdb)>> \o client[c].buf \in Seq(Items)
    BY <2>2, <2>3, ConcatProperties
  <2>5. QED
    BY <2>4 DEF SendBulk, IInv, WireOK
<1>3. ClientOK'
  <2>1. [NoClient EXCEPT !.state = "online"] \in Clients
    BY EmptyOK DEF Clients
  <2>2. QED
    BY <2>1 DEF SendBulk, IInv, ClientOK
<1>4. StreamOK'
  <2>1. \A d \in Conns : d # c => client'[d] = client[d]
    BY DEF SendBulk, IInv, ClientOK
  <2>2. Attached' \subseteq Attached
    BY <2>1 DEF Attached, SendBulk
  <2>3. QED
    BY <2>2, ClientsLeave DEF IInv, SendBulk, masterVars
<1>5. DataOK' /\ SlavesOK'
  BY DEF IInv, DataOK, SlavesOK, SendBulk, masterVars
<1>6. QED
  BY <1>2, <1>3, <1>4, <1>5 DEF IInv

LEMMA MasterLosesOK ==
  ASSUME IInv, NEW c \in Conns, MasterLoses(c)
  PROVE  IInv'
<1>1. ClientOK'
  BY EmptyOK DEF MasterLoses, IInv, ClientOK
<1>2. StreamOK'
  <2>1. \A d \in Conns : d # c => client'[d] = client[d]
    BY DEF MasterLoses, IInv, ClientOK
  <2>2. Attached' \subseteq Attached
    BY <2>1 DEF Attached, MasterLoses
  <2>3. QED
    BY <2>2, ClientsLeave DEF IInv, MasterLoses, masterVars
<1>3. DataOK' /\ WireOK' /\ SlavesOK'
  BY DEF IInv, DataOK, WireOK, SlavesOK, MasterLoses, masterVars
<1>4. QED
  BY <1>1, <1>2, <1>3 DEF IInv

LEMMA RestartOK ==
  ASSUME IInv, Restart
  PROVE  IInv'
<1>1. ClientOK' /\ Attached' = {}
  BY EmptyOK DEF Restart, ClientOK, Attached, NoClient
<1>2. StreamOK'
  BY <1>1, EmptySeq DEF Restart, IInv, StreamOK, BacklogOK
<1>3. DataOK' /\ WireOK' /\ SlavesOK'
  BY DEF IInv, DataOK, WireOK, SlavesOK, Restart
<1>4. QED
  BY <1>1, <1>2, <1>3 DEF IInv

LEMMA BgsaveOK ==
  ASSUME IInv, Bgsave
  PROVE  IInv'
<1>1. StreamOK' /\ ClientOK'
  BY DEF Bgsave, IInv, StreamOK, BacklogOK, Attached, ClientOK
<1>2. DataOK' /\ WireOK' /\ SlavesOK'
  BY DEF Bgsave, IInv, DataOK, WireOK, SlavesOK
<1>3. QED
  BY <1>1, <1>2 DEF IInv

LEMMA FreeBacklogOK ==
  ASSUME IInv, FreeBacklog
  PROVE  IInv'
<1>1. StreamOK' /\ ClientOK'
  BY DEF FreeBacklog, IInv, StreamOK, BacklogOK, Attached, ClientOK
<1>2. DataOK' /\ WireOK' /\ SlavesOK'
  BY DEF FreeBacklog, IInv, DataOK, WireOK, SlavesOK
<1>3. QED
  BY <1>1, <1>2 DEF IInv

-----------------------------------------------------------------------------
\* The operators that a slave's state changes with.
LEMMA ReadOK ==
  ASSUME NEW x, SlaveOK(x), NEW cell \in Cells
  PROVE  SlaveOK(Read(x, cell))
<1> DEFINE y == Execute(x, cell)
           data == Append(x.data, [id |-> cell.id, db |-> x.db])
<1>1. x \in SlaveStates /\ data \in Datasets
  <2>1. x \in SlaveStates /\ x.data \in Datasets /\ x.db \in Nat /\ cell.id \in Nat
    <3>1. x \in SlaveStates
      BY DEF SlaveOK
    <3>2. x.data \in Datasets /\ x.db \in Dbs
      BY <3>1 DEF SlaveStates
    <3>3. Dbs \subseteq Nat
      BY ReplicationConstants
    <3>4. cell.id \in Nat
      BY DEF Cells
    <3>5. QED
      BY <3>1, <3>2, <3>3, <3>4
  <2>2. [id |-> cell.id, db |-> x.db] \in [id : Nat, db : Nat]
    BY <2>1
  <2>3. QED
    BY <2>1, <2>2, AppendProperties DEF Datasets
<1> HIDE DEF data
<1>2. y \in SlaveStates /\ y.conn = x.conn /\ y.state = x.state
  <2>1. CASE cell.kind = "select"
    <3>1. y = [x EXCEPT !.db = cell.db, !.half = FALSE]
      BY <2>1, Zenon DEF Execute
    <3>2. cell.db \in Dbs
      BY <2>1 DEF Cells
    <3>3. QED
      BY <1>1, <3>1, <3>2 DEF SlaveStates
  <2>2. CASE cell.kind = "head"
    <3>1. y = [x EXCEPT !.half = TRUE]
      BY <2>2 DEF Execute
    <3>2. QED
      BY <1>1, <3>1 DEF SlaveStates
  <2>3. CASE cell.kind = "tail" /\ x.half
    <3>1. y = [x EXCEPT !.half = FALSE, !.data = data]
      BY <2>3 DEF Execute, data
    <3>2. QED
      BY <1>1, <3>1 DEF SlaveStates
  <2>4. CASE cell.kind \notin {"select", "head"} /\ ~(cell.kind = "tail" /\ x.half)
    <3>1. y = [x EXCEPT !.half = FALSE]
      BY <2>4 DEF Execute
    <3>2. QED
      BY <1>1, <3>1 DEF SlaveStates
  <2>5. QED
    BY <2>1, <2>2, <2>3, <2>4
<1>3. x.reploff \in Nat
  BY <1>1 DEF SlaveStates
<1> DEFINE z == [y EXCEPT !.reploff = x.reploff + 1]
<1>4. Read(x, cell) = z
  BY DEF Read
<1> HIDE DEF y
<1>5. z \in SlaveStates /\ z.conn = x.conn /\ z.state = x.state
  BY <1>2, <1>3 DEF SlaveStates
<1> HIDE DEF z
<1>6. QED
  BY <1>4, <1>5 DEF SlaveOK

\* A slave that hears of its master has a connection.
LEMMA AnswerOK ==
  ASSUME NEW x, SlaveOK(x), x.conn # NoConn, NEW y \in SlaveStates,
         y.conn = x.conn, y.state \in {"transfer", "connected"}
  PROVE  SlaveOK(y)
  BY DEF SlaveOK

LEMMA ItemOK ==
  ASSUME NEW x, SlaveOK(x), x.conn # NoConn, NEW item \in Items
  PROVE  SlaveOK(CASE item.kind = "continue" -> Resurrect(x)
                   [] item.kind = "fullresync" -> Accept(x, item)
                   [] item.kind = "rdb" -> Load(x, item.data)
                   [] OTHER -> Read(x, item))
<1> DEFINE y == CASE item.kind = "continue" -> Resurrect(x)
                  [] item.kind = "fullresync" -> Accept(x, item)
                  [] item.kind = "rdb" -> Load(x, item.data)
                  [] OTHER -> Read(x, item)
<1>1. x \in SlaveStates
  BY DEF SlaveOK
<1>2. CASE item \in Cells
  <2>1. item.kind \notin {"continue", "fullresync", "rdb"}
    BY <1>2 DEF Cells
  <2>2. y = Read(x, item)
    BY <2>1, Zenon
  <2> HIDE DEF y
  <2>3. SlaveOK(y)
    BY <1>2, <2>2, ReadOK
  <2>4. QED
    BY <2>3 DEF y
<1>3. CASE item = Continue
  <2>1. item.kind = "continue"
    BY <1>3 DEF Continue
  <2>2. y = Resurrect(x)
    BY <2>1
  <2> HIDE DEF y
  <2>3. y \in SlaveStates /\ y.conn = x.conn /\ y.state = "connected"
    BY <1>1, <2>2 DEF Resurrect, SlaveStates
  <2>4. SlaveOK(y)
    BY <2>3, AnswerOK
  <2>5. QED
    BY <2>4 DEF y
<1>4. CASE item \in [kind : {"fullresync"}, runid : Nat, offset : Nat,
                     origin : {"own", "shared"}]
  <2>1. /\ item.kind = "fullresync" /\ item.runid \in Nat /\ item.offset \in Nat
        /\ item.origin \in {"own", "shared"}
    BY <1>4
  <2>2. y = Accept(x, item)
    BY <2>1
  <2> HIDE DEF y
  <2>3. y \in SlaveStates /\ y.conn = x.conn /\ y.state = "transfer"
    BY <1>1, <2>1, <2>2 DEF Accept, SlaveStates
  <2>4. SlaveOK(y)
    BY <2>3, AnswerOK
  <2>5. QED
    BY <2>4 DEF y
<1>5. CASE item \in [kind : {"rdb"}, data : Datasets]
  <2>1. item.kind = "rdb" /\ item.data \in Datasets /\ 0 \in Dbs
    BY <1>5, ReplicationConstants
  <2>2. y = Load(x, item.data)
    BY <2>1
  <2> HIDE DEF y
  <2>3. y \in SlaveStates /\ y.conn = x.conn /\ y.state = "connected"
    BY <1>1, <2>1, <2>2 DEF Load, SlaveStates
  <2>4. SlaveOK(y)
    BY <2>3, AnswerOK
  <2>5. QED
    BY <2>4 DEF y
<1>6. QED
  BY <1>2, <1>3, <1>4, <1>5 DEF Items

LEMMA SlaveReadsOK ==
  ASSUME IInv, NEW s \in Slaves, SlaveReads(s)
  PROVE  IInv'
<1> DEFINE c == slave[s].conn
<1>1. SlaveOK(slave[s]) /\ c # NoConn /\ c \in Conns
  BY DEF IInv, SlavesOK, SlaveOK, SlaveStates, SlaveReads
<1>2. wire[c] \in Seq(Items) /\ wire[c] # <<>>
  BY <1>1 DEF IInv, WireOK, SlaveReads
<1>3. Head(wire[c]) \in Items /\ Tail(wire[c]) \in Seq(Items)
  BY <1>2, HeadTailProperties
<1>4. WireOK'
  BY <1>1, <1>3 DEF SlaveReads, IInv, WireOK
<1>5. SlavesOK'
  <2> DEFINE item == Head(wire[c])
             y == CASE item.kind = "continue" -> Resurrect(slave[s])
                    [] item.kind = "fullresync" -> Accept(slave[s], item)
                    [] item.kind = "rdb" -> Load(slave[s], item.data)
                    [] OTHER -> Read(slave[s], item)
  <2>1. SlaveOK(y)
    BY <1>1, <1>3, ItemOK
  <2>2. slave' = [slave EXCEPT ![s] = y]
    BY DEF SlaveReads
  <2> HIDE DEF y
  <2>3. QED
    BY <2>1, <2>2 DEF IInv, SlavesOK
<1>6. StreamOK' /\ DataOK' /\ ClientOK'
  BY DEF SlaveReads, masterVars, IInv, StreamOK, BacklogOK, Attached, DataOK, ClientOK
<1>7. QED
  BY <1>4, <1>5, <1>6 DEF IInv

LEMMA SlaveLosesOK ==
  ASSUME IInv, NEW s \in Slaves, SlaveLoses(s)
  PROVE  IInv'
<1>1. SlavesOK'
  <2>1. SlaveOK(slave[s])
    BY DEF IInv, SlavesOK
  <2> DEFINE y == CacheMaster(slave[s])
  <2>2. y \in SlaveStates /\ y.conn = NoConn /\ y.state = "connect"
    BY <2>1 DEF SlaveOK, SlaveStates, CacheMaster, NoRun
  <2>3. slave' = [slave EXCEPT ![s] = y]
    BY DEF SlaveLoses
  <2> HIDE DEF y
  <2>4. SlaveOK(y)
    BY <2>2 DEF SlaveOK
  <2>5. QED
    BY <2>3, <2>4 DEF IInv, SlavesOK
<1>2. WireOK'
  BY EmptySeq DEF SlaveLoses, IInv, WireOK
<1>3. StreamOK' /\ DataOK' /\ ClientOK'
  BY DEF SlaveLoses, masterVars, IInv, StreamOK, BacklogOK, Attached, DataOK, ClientOK
<1>4. QED
  BY <1>1, <1>2, <1>3 DEF IInv

LEMMA StutterOK ==
  ASSUME IInv, UNCHANGED vars
  PROVE  IInv'
<1>1. StreamOK' /\ DataOK'
  BY DEF vars, masterVars, IInv, StreamOK, BacklogOK, Attached, DataOK
<1>2. ClientOK' /\ WireOK' /\ SlavesOK'
  BY DEF vars, IInv, ClientOK, WireOK, SlavesOK
<1>3. QED
  BY <1>1, <1>2 DEF IInv

LEMMA StepOK == IInv /\ [Next]_vars => IInv'
<1> SUFFICES ASSUME IInv, [Next]_vars PROVE IInv'
  OBVIOUS
<1>1. CASE MasterStep
  <2>1. ASSUME NEW db \in Dbs, Write(db) PROVE IInv'
    BY <2>1, WriteOK
  <2>2. ASSUME NEW ok \in BOOLEAN, BgsaveDone(ok) PROVE IInv'
    BY <2>2, BgsaveDoneOK
  <2>3. ASSUME NEW c \in Conns, SendBulk(c) \/ MasterLoses(c) PROVE IInv'
    BY <2>3, SendBulkOK, MasterLosesOK
  <2>4. ASSUME Ping \/ Bgsave \/ FreeBacklog \/ Restart PROVE IInv'
    BY <2>4, PingOK, BgsaveOK, FreeBacklogOK, RestartOK
  <2>5. QED
    BY <1>1, <2>1, <2>2, <2>3, <2>4 DEF MasterStep
<1>2. CASE SlaveStep
  <2>1. ASSUME NEW s \in Slaves, NEW c \in Conns, PartialSync(s, c) \/ FullSync(s, c)
        PROVE  IInv'
    BY <2>1, PartialSyncOK, FullSyncOK
  <2>2. ASSUME NEW s \in Slaves, SlaveReads(s) \/ SlaveLoses(s) PROVE IInv'
    BY <2>2, SlaveReadsOK, SlaveLosesOK
  <2>3. QED
    BY <1>2, <2>1, <2>2 DEF SlaveStep, SyncCommand
<1>3. CASE UNCHANGED vars
  BY <1>3, StutterOK
<1>4. QED
  BY <1>1, <1>2, <1>3 DEF Next

LEMMA IInvHolds == Spec => []IInv
<1>1. QED
  BY InitOK, StepOK, PTL DEF Spec

-----------------------------------------------------------------------------
(***************************************************************************)
(* Of every slave the connection is there exactly while it talks to its    *)
(* master (replicationHandleMasterDisconnection), and its database and its *)
(* offset are a database and an offset.                                    *)
(***************************************************************************)
THEOREM TypesHold == Spec => []TypeOK
<1>1. IInv => TypeOK
  BY DEF IInv, TypeOK, StreamOK, ClientOK, Clients, SlavesOK, SlaveOK, SlaveStates
<1>2. QED
  BY <1>1, IInvHolds, PTL

(***************************************************************************)
(* Wherever the backlog has wrapped (feedReplicationBacklog), it answers   *)
(* each offset that masterTryPartialResynchronization accepts with the     *)
(* stream from there on, and no slave is attached without one.             *)
(***************************************************************************)
THEOREM BacklogAlwaysServes == Spec => []BacklogServes
<1>1. ASSUME IInv PROVE BacklogServes
  <2>1. CASE backlog = NoBacklog
    BY <1>1, <2>1 DEF IInv, StreamOK, BacklogOK, BacklogServes
  <2>2. CASE backlog # NoBacklog
    <3>1. backlog \in Backlogs(Cells) /\ Holds(backlog, stream) /\ stream \in Seq(Cells)
      BY <1>1, <2>2 DEF IInv, StreamOK, BacklogOK
    <3>2. SendsTheStream(backlog, stream)
      BY <3>1, HoldsServes
    <3>3. QED
      BY <2>2, <3>2 DEF BacklogServes
  <2>3. QED
    BY <2>1, <2>2
<1>2. QED
  BY <1>1, IInvHolds, PTL

-----------------------------------------------------------------------------
(***************************************************************************)
(* Where the offset of a slave stands in the stream.                       *)
(***************************************************************************)

\* What of the master the offsets are about.
Now == [stream |-> stream, data |-> mdata, sel |-> slaveseldb, run |-> runid,
        child |-> child]

\* A cell and the next one.  What is void never reaches a slave.
Linked(data, a, b) ==
  /\ a.db = NoDb => b.kind = "select" \/ b.db = NoDb
  /\ b.kind # "void" => b.len = IF b.kind = "tail" THEN a.len + 1 ELSE a.len
  /\ b.kind = "tail" => a.kind = "head" /\ data[b.len] = [id |-> b.id, db |-> b.db]
  /\ b.kind \in {"head", "tail"} => b.db = a.db
  /\ b.kind = "ping" => b.db \in {a.db, NoDb}
Links(cells, data) ==
  \A i \in 1..Len(cells) - 1 : Linked(data, cells[i], cells[i + 1])

\* The cells are linked, and about the dataset.
Core(cells, data) ==
  /\ cells \in Seq(Cells) /\ Links(cells, data)
  /\ \A i \in 1..Len(cells) : cells[i].len <= Len(data)

StreamWell(w) ==
  /\ Core(w.stream, w.data) /\ w.data \in Datasets /\ w.sel \in Dbs \cup {NoDb}
  /\ w.run \in Nat \ {0}
  /\ w.stream # <<>> => w.stream[Len(w.stream)].kind # "head"
  /\ w.sel # NoDb => w.stream # <<>> /\ w.sel = w.stream[Len(w.stream)].db

\* While there is a backlog everything goes to the stream, and what of it a
\* slave may be sent has nothing void.
BacklogWell ==
  backlog # NoBacklog =>
    /\ stream # <<>> /\ stream[Len(stream)].len = Len(mdata)
    /\ \A i \in backlog.off..Len(stream) : stream[i].kind # "void"

At(w, offset) == SubSeq(w.data, 1, w.stream[offset].len)

\* No command follows without a SELECT before it.
Unselected(w, offset) ==
  IF offset = Len(w.stream) THEN w.sel = NoDb
  ELSE w.stream[offset + 1].kind = "select" \/ w.stream[offset + 1].db = NoDb

\* The slave is where the stream was at its offset.
Stands(w, x) ==
  /\ x.reploff \in 1..Len(w.stream) /\ x.data = At(w, x.reploff)
  /\ x.half <=> w.stream[x.reploff].kind = "head"
  /\ x.db = w.stream[x.reploff].db \/ Unselected(w, x.reploff)

\* The cells are those of the stream after an offset, up to its end.
Follows(w, offset, q) ==
  /\ offset + Len(q) <= Len(w.stream)
  /\ \A k \in 1..Len(q) : q[k] = w.stream[offset + k] /\ q[k].kind # "void"
ToTheEnd(w, offset, q) == offset + Len(q) = Len(w.stream)

Continues(w, x, q, cl) ==
  /\ cl.state \in {"none", "online"}
  /\ Follows(w, x.reploff, q)
  /\ cl.state = "online" => ToTheEnd(w, x.reploff, q)

\* The slave is promised a dataset at an offset, and what follows.
Promised(w, offset, q, cl) ==
  /\ offset \in 1..Len(w.stream) /\ w.stream[offset].kind # "head"
  /\ Unselected(w, offset) /\ cl.state # "start"
  /\ cl.state \in {"end", "bulk"} =>
       q = <<>> /\ Follows(w, offset, cl.buf) /\ ToTheEnd(w, offset, cl.buf)
  /\ cl.state = "end" => w.child = At(w, offset)
  /\ cl.state = "bulk" => cl.rdb = At(w, offset)
  /\ cl.state = "online" => q # <<>> /\ ToTheEnd(w, offset, Tail(q))
  /\ q # <<>> => Head(q) = Rdb(At(w, offset)) /\ Follows(w, offset, Tail(q))

Own(w, x) == x.origin = "own" /\ x.runid = w.run
Plain(q) == \A i \in 1..Len(q) : q[i].kind \notin {"continue", "fullresync"}

\* The answer to PSYNC, and what comes behind it.
Answered(w, x, item, q, cl) ==
  /\ item.kind \in {"continue", "fullresync"} /\ Plain(q)
  /\ item.kind = "continue" /\ Own(w, x) => Stands(w, x) /\ Continues(w, x, q, cl)
  /\ item.kind = "fullresync" =>
       /\ item.runid <= w.run
       /\ item.runid = w.run /\ item.origin = "own" => Promised(w, item.offset, q, cl)

\* A slave, what is on its way to it, and the client it is to its master.
SlaveWell(w, x, q, cl) ==
  /\ x.runid <= w.run
  /\ x.state \in {"connect", "connected"} /\ Own(w, x) => Stands(w, x)
  /\ x.state = "connected" /\ Own(w, x) => Continues(w, x, q, cl)
  /\ x.state = "psync" => q # <<>> /\ Answered(w, x, Head(q), Tail(q), cl)
  /\ x.state = "transfer" /\ Own(w, x) => Promised(w, x.reploff, q, cl)
  /\ x.state \in {"transfer", "connected"} => Plain(q)

WireAt(c) == IF c \in Conns THEN wire[c] ELSE <<>>
ClientAt(c) == IF c \in Conns THEN client[c] ELSE NoClient

\* A connection is that of one slave.
Single ==
  \A s, t \in Slaves : s # t /\ slave[s].conn = slave[t].conn
                         => slave[s].conn = NoConn

WellAt(s) ==
  SlaveWell(Now, slave[s], WireAt(slave[s].conn), ClientAt(slave[s].conn))

\* The inductive invariant.
Offsets ==
  /\ StreamWell(Now) /\ BacklogWell /\ Single
  /\ \A s \in Slaves : WellAt(s)

\* The master is further than it was, in the same run.
Grown(w, v) ==
  /\ Len(w.stream) <= Len(v.stream) /\ v.run = w.run
  /\ \A i \in 1..Len(w.stream) : /\ v.stream[i] = w.stream[i]
                                 /\ At(v, i) = At(w, i)
  /\ Unselected(w, Len(w.stream)) => Unselected(v, Len(w.stream))

-----------------------------------------------------------------------------
LEMMA NowFacts ==
  /\ Now.stream = stream /\ Now.data = mdata /\ Now.sel = slaveseldb
  /\ Now.run = runid /\ Now.child = child
  /\ Now'.stream = stream' /\ Now'.data = mdata' /\ Now'.sel = slaveseldb'
  /\ Now'.run = runid' /\ Now'.child = child'
  BY DEF Now

\* One more write.
LEMMA LongerPrefix ==
  ASSUME NEW S, NEW q \in Seq(S), NEW n \in Nat, n < Len(q)
  PROVE  SubSeq(q, 1, n + 1) = Append(SubSeq(q, 1, n), q[n + 1])
<1>1. /\ Len(q) \in Nat /\ n + 1 \in 1..Len(q) /\ 1 \in 1..Len(q) /\ (n + 1) - 1 = n
      /\ n + 1 \in 1..Len(q)
  BY LenProperties
<1>2. SubSeq(q, 1, n + 1) = SubSeq(q, 1, n) \o <<q[n + 1]>>
  BY <1>1, SubSeqRecursiveSecond
<1>3. SubSeq(q, 1, n) \in Seq(S) /\ q[n + 1] \in S
  <2>1. \A i \in 1..n : q[i] \in S
    BY <1>1
  <2>2. SubSeq(q, 1, n) \in Seq(S)
    BY <2>1, SubSeqProperties
  <2>3. QED
    BY <1>1, <2>2
<1>4. QED
  BY <1>2, <1>3, AppendIsConcat

\* The beginning of a dataset stays when it grows.
LEMMA SamePrefix ==
  ASSUME NEW S, NEW q \in Seq(S), NEW x \in S, NEW n \in Nat, n <= Len(q)
  PROVE  SubSeq(Append(q, x), 1, n) = SubSeq(q, 1, n)
<1>1. /\ Len(q) \in Nat /\ Append(q, x) \in Seq(S)
      /\ Len(Append(q, x)) = Len(q) + 1
      /\ \A i \in 1..Len(q) : Append(q, x)[i] = q[i]
  BY AppendFacts
<1>2. /\ \A i \in 1..n : q[i] \in S /\ Append(q, x)[i] \in S /\ Append(q, x)[i] = q[i]
      /\ 1 \in Int /\ n \in Int
  BY <1>1
<1>3. /\ SubSeq(q, 1, n) \in Seq(S) /\ Len(SubSeq(q, 1, n)) = n
      /\ \A i \in 1..n : SubSeq(q, 1, n)[i] = q[i]
  BY <1>2, SubSeqProperties
<1>4. /\ SubSeq(Append(q, x), 1, n) \in Seq(S) /\ Len(SubSeq(Append(q, x), 1, n)) = n
      /\ \A i \in 1..n : SubSeq(Append(q, x), 1, n)[i] = Append(q, x)[i]
  <2> DEFINE r == Append(q, x)
  <2>1. \A i \in 1..n : r[i] \in S
    BY <1>2
  <2> HIDE DEF r
  <2>2. /\ SubSeq(r, 1, n) \in Seq(S) /\ Len(SubSeq(r, 1, n)) = n
        /\ \A i \in 1..n : SubSeq(r, 1, n)[i] = r[i]
    BY <1>2, <2>1, SubSeqProperties
  <2>3. QED
    BY <2>2 DEF r
<1>5. QED
  BY <1>2, <1>3, <1>4, SeqEqual

\* The fields of a cell.
LEMMA CellFacts ==
  ASSUME NEW b \in Cells
  PROVE  /\ b.kind \in {"select", "head", "tail", "ping", "void"}
         /\ b.db \in Dbs \cup {NoDb} /\ b.id \in Nat /\ b.len \in Nat
         /\ b.kind \in {"select", "head", "tail"} => b.db # NoDb /\ b.db \in Dbs
<1>1. NoDb \notin Dbs
  BY ReplicationConstants DEF NoDb
<1>2. QED
  BY <1>1 DEF Cells

LEMMA NoSuchData == NoChild \notin Datasets
<1>1. ASSUME NoChild \in Seq([id : Nat, db : Nat])
      PROVE  NoChild[1] \in [id : Nat, db : Nat]
  <2>1. Len(NoChild) = 1
    BY DEF NoChild
  <2>2. 1 \in 1..Len(NoChild)
    BY <2>1
  <2>3. QED
    BY <1>1, <2>2, ElementOfSeq
<1>2. [kind |-> "no child"] \notin [id : Nat, db : Nat]
  OBVIOUS
<1>3. QED
  BY <1>1, <1>2 DEF NoChild, Datasets

LEMMA StreamFacts ==
  ASSUME NEW w, StreamWell(w)
  PROVE  /\ Len(w.stream) \in Nat /\ Len(w.data) \in Nat
         /\ \A i \in 1..Len(w.stream) :
              /\ w.stream[i] \in Cells /\ w.stream[i].len \in 0..Len(w.data)
              /\ At(w, i) \in Datasets /\ At(w, i) # NoChild
<1>1. /\ w.stream \in Seq(Cells) /\ w.data \in Seq([id : Nat, db : Nat])
      /\ \A i \in 1..Len(w.stream) : w.stream[i].len <= Len(w.data)
  BY DEF StreamWell, Core, Datasets
<1>2. Len(w.stream) \in Nat /\ Len(w.data) \in Nat
  BY <1>1, LenProperties
<1>3. ASSUME NEW i \in 1..Len(w.stream)
      PROVE  /\ w.stream[i] \in Cells /\ w.stream[i].len \in 0..Len(w.data)
             /\ At(w, i) \in Datasets
  <2>1. w.stream[i] \in Cells
    BY <1>1
  <2>2. w.stream[i].len \in 0..Len(w.data)
    BY <1>1, <1>2, <2>1, CellFacts
  <2>3. ASSUME NEW k \in 1..w.stream[i].len
        PROVE  w.data[k] \in [id : Nat, db : Nat]
    <3>1. k \in 1..Len(w.data)
      BY <1>2, <2>2
    <3>2. QED
      BY <1>1, <3>1, ElementOfSeq
  <2>4. At(w, i) \in Seq([id : Nat, db : Nat])
    BY <2>2, <2>3, SubSeqProperties DEF At
  <2>5. QED
    BY <2>1, <2>2, <2>4 DEF Datasets
<1>4. QED
  BY <1>2, <1>3, NoSuchData

\* What Read makes of a slave.
LEMMA ReadFacts ==
  ASSUME NEW x, SlaveOK(x), NEW b \in Cells
  PROVE  LET y == Read(x, b)
         IN /\ y.reploff = x.reploff + 1 /\ y.state = x.state /\ y.conn = x.conn
            /\ y.runid = x.runid /\ y.origin = x.origin
            /\ y.half <=> b.kind = "head"
            /\ y.db = IF b.kind = "select" THEN b.db ELSE x.db
            /\ y.data = IF b.kind = "tail" /\ x.half
                        THEN Append(x.data, [id |-> b.id, db |-> x.db]) ELSE x.data
<1> DEFINE z == Execute(x, b)
           data == Append(x.data, [id |-> b.id, db |-> x.db])
<1>1. x \in SlaveStates
  BY DEF SlaveOK
<1>2. /\ z.state = x.state /\ z.conn = x.conn /\ z.runid = x.runid /\ z.origin = x.origin
      /\ z.half <=> b.kind = "head"
      /\ z.db = IF b.kind = "select" THEN b.db ELSE x.db
      /\ z.data = IF b.kind = "tail" /\ x.half THEN data ELSE x.data
      /\ z = [state |-> z.state, conn |-> z.conn, data |-> z.data, db |-> z.db,
              half |-> z.half, runid |-> z.runid, reploff |-> z.reploff,
              origin |-> z.origin]
  <2> HIDE DEF data
  <2>1. CASE b.kind = "select"
    <3>1. z = [x EXCEPT !.db = b.db, !.half = FALSE]
      BY <2>1, Zenon DEF Execute
    <3>2. QED
      BY <1>1, <2>1, <3>1 DEF SlaveStates
  <2>2. CASE b.kind = "head"
    <3>1. z = [x EXCEPT !.half = TRUE]
      BY <2>2 DEF Execute
    <3>2. QED
      BY <1>1, <2>2, <3>1 DEF SlaveStates
  <2>3. CASE b.kind = "tail" /\ x.half
    <3>1. z = [x EXCEPT !.half = FALSE, !.data = data]
      BY <2>3 DEF Execute, data
    <3>2. QED
      BY <1>1, <2>3, <3>1 DEF SlaveStates
  <2>4. CASE b.kind \notin {"select", "head"} /\ ~(b.kind = "tail" /\ x.half)
    <3>1. z = [x EXCEPT !.half = FALSE]
      BY <2>4 DEF Execute
    <3>2. QED
      BY <1>1, <2>4, <3>1 DEF SlaveStates
  <2>5. QED
    BY <2>1, <2>2, <2>3, <2>4
<1> DEFINE y == Read(x, b)
<1>3. y = [z EXCEPT !.reploff = x.reploff + 1]
  BY DEF Read
<1> HIDE DEF z, y
<1>4. /\ y.reploff = x.reploff + 1 /\ y.state = z.state /\ y.conn = z.conn
      /\ y.runid = z.runid /\ y.origin = z.origin /\ y.half = z.half
      /\ y.db = z.db /\ y.data = z.data
  BY <1>2, <1>3
<1>5. QED
  BY <1>2, <1>4 DEF y

\* A slave that reads the next cell of the stream is where the stream was then.
LEMMA StandsNext ==
  ASSUME NEW w, StreamWell(w), NEW x, SlaveOK(x), Stands(w, x),
         x.reploff < Len(w.stream), w.stream[x.reploff + 1].kind # "void"
  PROVE  Stands(w, Read(x, w.stream[x.reploff + 1]))
<1> DEFINE n == x.reploff
           a == w.stream[n]
           b == w.stream[n + 1]
           y == Read(x, b)
<1>1. /\ n \in 1..Len(w.stream) /\ n \in Nat /\ n + 1 \in 1..Len(w.stream)
      /\ Len(w.stream) \in Nat /\ n \in 1..Len(w.stream) - 1
  BY StreamFacts DEF Stands
<1>2. /\ a \in Cells /\ b \in Cells /\ a.len \in 0..Len(w.data)
      /\ b.len \in 0..Len(w.data) /\ Len(w.data) \in Nat
  BY <1>1, StreamFacts
<1>3. Linked(w.data, a, b)
  BY <1>1 DEF StreamWell, Core, Links
<1>4. /\ y.reploff = n + 1
      /\ y.half <=> b.kind = "head"
      /\ y.db = IF b.kind = "select" THEN b.db ELSE x.db
      /\ y.data = IF b.kind = "tail" /\ x.half
                  THEN Append(x.data, [id |-> b.id, db |-> x.db]) ELSE x.data
  BY <1>2, ReadFacts
<1>5. x.db \in Dbs /\ x.db # NoDb
  BY ReplicationConstants DEF SlaveOK, SlaveStates, NoDb
<1>6. /\ x.data = At(w, n)
      /\ x.half <=> a.kind = "head"
      /\ x.db = a.db \/ b.kind = "select" \/ b.db = NoDb
  BY <1>1 DEF Stands, Unselected
<1> HIDE DEF y, a, b, n
<1>7. y.data = At(w, n + 1)
  <2>1. CASE b.kind = "tail"
    <3>1. x.half /\ b.len = a.len + 1 /\ x.db = b.db
      <4>1. b.db # NoDb
        BY <1>2, <2>1, CellFacts
      <4>2. QED
        BY <1>3, <1>6, <2>1, <4>1 DEF Linked
    <3>2. y.data = Append(At(w, n), w.data[b.len])
      BY <1>3, <1>4, <1>6, <2>1, <3>1 DEF Linked
    <3>3. w.data \in Seq([id : Nat, db : Nat]) /\ a.len \in Nat /\ a.len < Len(w.data)
      BY <1>2, <3>1 DEF StreamWell, Core, Datasets
    <3>4. SubSeq(w.data, 1, a.len + 1) = Append(SubSeq(w.data, 1, a.len), w.data[a.len + 1])
      BY <3>3, LongerPrefix
    <3>5. QED
      BY <3>1, <3>2, <3>4 DEF At, a, b
  <2>2. CASE b.kind # "tail"
    <3>1. b.len = a.len
      BY <1>3, <2>2 DEF Linked, b, n
    <3>2. QED
      BY <1>4, <1>6, <2>2, <3>1 DEF At, a, b
  <2>3. QED
    BY <2>1, <2>2
<1>8. y.db = b.db \/ Unselected(w, n + 1)
  <2>1. CASE b.kind = "select"
    BY <1>4, <2>1
  <2>2. CASE b.kind \in {"head", "tail"}
    BY <1>2, <1>3, <1>4, <1>6, <2>2, CellFacts DEF Linked
  <2>3. CASE b.kind = "ping"
    <3>1. y.db = b.db \/ b.db = NoDb
      BY <1>3, <1>4, <1>6, <2>3 DEF Linked
    <3>2. ASSUME b.db = NoDb PROVE Unselected(w, n + 1)
      <4>1. CASE n + 1 = Len(w.stream)
        BY <3>2, <4>1 DEF StreamWell, Unselected, b
      <4>2. CASE n + 1 # Len(w.stream)
        <5> DEFINE m == n + 1
        <5>1. m \in 1..Len(w.stream) - 1
          BY <1>1, <4>2
        <5>2. Linked(w.data, w.stream[m], w.stream[m + 1])
          BY <5>1 DEF StreamWell, Core, Links
        <5>3. QED
          BY <3>2, <4>2, <5>2 DEF Linked, Unselected, b
      <4>3. QED
        BY <4>1, <4>2
    <3>3. QED
      BY <3>1, <3>2
  <2>4. b.kind # "void"
    BY DEF b, n
  <2>5. QED
    BY <1>2, <2>1, <2>2, <2>3, <2>4, CellFacts
<1>9. Stands(w, y)
  BY <1>1, <1>4, <1>7, <1>8 DEF Stands, b
<1>10. QED
  BY <1>9 DEF y, b, n

-----------------------------------------------------------------------------
\* What holds of an offset holds when the master is further.
LEMMA UnselectedGrown ==
  ASSUME NEW w, StreamWell(w), NEW v, StreamWell(v), Grown(w, v),
         NEW n \in 1..Len(w.stream), Unselected(w, n)
  PROVE  Unselected(v, n)
<1>1. Len(w.stream) \in Nat /\ Len(v.stream) \in Nat /\ Len(w.stream) <= Len(v.stream)
  BY StreamFacts DEF Grown
<1>2. CASE n = Len(w.stream)
  BY <1>2 DEF Grown
<1>3. CASE n # Len(w.stream)
  <2>1. n + 1 \in 1..Len(w.stream) /\ n # Len(v.stream)
    BY <1>1, <1>3
  <2>2. v.stream[n + 1] = w.stream[n + 1]
    BY <2>1 DEF Grown
  <2>3. QED
    BY <1>3, <2>1, <2>2 DEF Unselected
<1>4. QED
  BY <1>2, <1>3

LEMMA StandsGrown ==
  ASSUME NEW w, StreamWell(w), NEW v, StreamWell(v), Grown(w, v),
         NEW x, Stands(w, x)
  PROVE  Stands(v, x)
<1>1. Len(w.stream) \in Nat /\ Len(v.stream) \in Nat /\ Len(w.stream) <= Len(v.stream)
  BY StreamFacts DEF Grown
<1>2. x.reploff \in 1..Len(w.stream) /\ x.reploff \in 1..Len(v.stream)
  BY <1>1 DEF Stands
<1>3. v.stream[x.reploff] = w.stream[x.reploff] /\ At(v, x.reploff) = At(w, x.reploff)
  BY <1>2 DEF Grown
<1>4. Unselected(w, x.reploff) => Unselected(v, x.reploff)
  BY <1>2, UnselectedGrown
<1>5. QED
  BY <1>2, <1>3, <1>4 DEF Stands

LEMMA FollowsGrown ==
  ASSUME NEW w, StreamWell(w), NEW v, StreamWell(v), Grown(w, v),
         NEW n \in Nat, NEW S, NEW q \in Seq(S), Follows(w, n, q)
  PROVE  /\ Follows(v, n, q)
         /\ Len(v.stream) = Len(w.stream) /\ ToTheEnd(w, n, q) => ToTheEnd(v, n, q)
<1>1. /\ Len(w.stream) \in Nat /\ Len(v.stream) \in Nat /\ Len(q) \in Nat
      /\ Len(w.stream) <= Len(v.stream) /\ n + Len(q) <= Len(w.stream)
  BY StreamFacts, LenProperties DEF Grown, Follows
<1>2. ASSUME NEW k \in 1..Len(q)
      PROVE  q[k] = v.stream[n + k] /\ q[k].kind # "void"
  <2>1. n + k \in 1..Len(w.stream)
    BY <1>1
  <2>2. v.stream[n + k] = w.stream[n + k]
    BY <2>1 DEF Grown
  <2>3. QED
    BY <2>2 DEF Follows
<1>3. n + Len(q) <= Len(v.stream)
  BY <1>1
<1>4. QED
  BY <1>2, <1>3 DEF Follows, ToTheEnd

\* What is on its way to a slave, and its client.
LEMMA WhatComes ==
  ASSUME IInv, NEW c
  PROVE  WireAt(c) \in Seq(Items) /\ ClientAt(c) \in Clients
<1>1. CASE c \in Conns
  BY <1>1 DEF IInv, WireOK, ClientOK, WireAt, ClientAt
<1>2. CASE c \notin Conns
  BY <1>2, EmptyOK, EmptySeq DEF WireAt, ClientAt
<1>3. QED
  BY <1>1, <1>2

\* A promise stands when the master is further and the connection is lost, or
\* when nothing has been fed.
LEMMA PromisedGrown ==
  ASSUME NEW w, StreamWell(w), NEW v, StreamWell(v), Grown(w, v),
         NEW n \in Nat, NEW q \in Seq(Items), NEW cl \in Clients,
         cl.state = "none" \/ Len(v.stream) = Len(w.stream),
         v.child = w.child \/ w.child = NoChild,
         Promised(w, n, q, cl)
  PROVE  Promised(v, n, q, cl)
<1>1. /\ Len(w.stream) \in Nat /\ Len(v.stream) \in Nat
      /\ Len(w.stream) <= Len(v.stream) /\ n \in 1..Len(w.stream)
  BY StreamFacts DEF Grown, Promised
<1>2. /\ n \in 1..Len(v.stream) /\ v.stream[n] = w.stream[n] /\ At(v, n) = At(w, n)
      /\ At(w, n) # NoChild
  BY <1>1, StreamFacts DEF Grown
<1>3. Unselected(v, n)
  BY <1>1, UnselectedGrown DEF Promised
<1>4. ASSUME cl.state \in {"end", "bulk"}
      PROVE  q = <<>> /\ Follows(v, n, cl.buf) /\ ToTheEnd(v, n, cl.buf)
  <2>1. cl.buf \in Seq(Cells) /\ Len(v.stream) = Len(w.stream)
    BY <1>4 DEF Clients
  <2>2. q = <<>> /\ Follows(w, n, cl.buf) /\ ToTheEnd(w, n, cl.buf)
    BY <1>4 DEF Promised
  <2>3. QED
    BY <2>1, <2>2, FollowsGrown
<1>5. ASSUME q # <<>>
      PROVE  /\ Head(q) = Rdb(At(v, n)) /\ Follows(v, n, Tail(q))
             /\ cl.state = "online" => ToTheEnd(v, n, Tail(q))
  <2>1. Tail(q) \in Seq(Items)
    BY <1>5, HeadTailProperties
  <2>2. /\ Head(q) = Rdb(At(w, n)) /\ Follows(w, n, Tail(q))
        /\ cl.state = "online" => ToTheEnd(w, n, Tail(q))
    BY <1>5 DEF Promised
  <2>3. QED
    BY <1>2, <2>1, <2>2, FollowsGrown
<1>6. cl.state = "end" => v.child = At(v, n)
  BY <1>2 DEF Promised
<1>7. cl.state = "bulk" => cl.rdb = At(v, n)
  BY <1>2 DEF Promised
<1>8. cl.state # "start" /\ (cl.state = "online" => q # <<>>) /\ v.stream[n].kind # "head"
  BY <1>2 DEF Promised
<1>9. QED
  BY <1>2, <1>3, <1>4, <1>5, <1>6, <1>7, <1>8 DEF Promised

LEMMA ContinuesGrown ==
  ASSUME NEW w, StreamWell(w), NEW v, StreamWell(v), Grown(w, v),
         NEW x, x.reploff \in Nat, NEW q \in Seq(Items), NEW cl,
         cl.state = "none" \/ Len(v.stream) = Len(w.stream),
         Continues(w, x, q, cl)
  PROVE  Continues(v, x, q, cl)
<1>1. /\ cl.state \in {"none", "online"} /\ Follows(w, x.reploff, q)
      /\ cl.state = "online" => ToTheEnd(w, x.reploff, q)
  BY DEF Continues
<1>2. Follows(v, x.reploff, q)
  BY <1>1, FollowsGrown
<1>3. cl.state = "online" => ToTheEnd(v, x.reploff, q)
  BY <1>1, FollowsGrown
<1>4. QED
  BY <1>1, <1>2, <1>3 DEF Continues

\* The answer to PSYNC names a run and an offset.
LEMMA ItemFacts ==
  ASSUME NEW item \in Items
  PROVE  /\ item.kind \in {"select", "head", "tail", "ping", "void", "continue",
                           "fullresync", "rdb"}
         /\ item.kind = "fullresync" =>
              /\ item.runid \in Nat /\ item.offset \in Nat
              /\ item.origin \in {"own", "shared"}
         /\ item.kind = "rdb" => item.data \in Datasets /\ item = Rdb(item.data)
         /\ item.kind \in {"select", "head", "tail", "ping", "void"} => item \in Cells
<1>1. CASE item \in Cells
  BY <1>1 DEF Cells
<1>2. CASE item = Continue
  BY <1>2 DEF Continue
<1>3. CASE item \in [kind : {"fullresync"}, runid : Nat, offset : Nat,
                     origin : {"own", "shared"}]
  BY <1>3
<1>4. CASE item \in [kind : {"rdb"}, data : Datasets]
  BY <1>4 DEF Rdb
<1>5. QED
  BY <1>1, <1>2, <1>3, <1>4 DEF Items

\* An item in front of what follows.
LEMMA PrependFacts ==
  ASSUME NEW e \in Items, NEW f \in Seq(Items)
  PROVE  /\ <<e>> \o f \in Seq(Items) /\ <<e>> \o f # <<>>
         /\ Head(<<e>> \o f) = e /\ Tail(<<e>> \o f) = f
<1> DEFINE one == <<e>>
<1>1. one \in Seq(Items) /\ one # <<>> /\ Head(one) = e /\ Tail(one) = <<>>
  OBVIOUS
<1> HIDE DEF one
<1>2. \A g, h \in Seq(Items) : g # <<>> =>
        /\ g \o h \in Seq(Items) /\ g \o h # <<>> /\ Head(g \o h) = Head(g)
        /\ Tail(g \o h) = Tail(g) \o h
  BY HeadOfTwo, ConcatFacts
<1>3. /\ one \o f \in Seq(Items) /\ one \o f # <<>> /\ Head(one \o f) = Head(one)
      /\ Tail(one \o f) = Tail(one) \o f
  BY <1>1, <1>2
<1>4. <<>> \o f = f
  BY ConcatEmptySeq
<1>5. /\ one \o f \in Seq(Items) /\ one \o f # <<>> /\ Head(one \o f) = e
      /\ Tail(one \o f) = f
  BY <1>1, <1>3, <1>4
<1>6. QED
  BY <1>5 DEF one

LEMMA GrownWell ==
  ASSUME NEW w, StreamWell(w), NEW v, StreamWell(v), Grown(w, v),
         NEW x, SlaveOK(x), NEW q \in Seq(Items), NEW cl \in Clients,
         cl.state = "none" \/ Len(v.stream) = Len(w.stream),
         v.child = w.child \/ w.child = NoChild,
         SlaveWell(w, x, q, cl)
  PROVE  SlaveWell(v, x, q, cl)
<1>1. x.reploff \in Nat /\ v.run = w.run
  BY DEF SlaveOK, SlaveStates, Grown
<1>2. Own(v, x) <=> Own(w, x)
  BY <1>1 DEF Own
<1>3. Stands(w, x) => Stands(v, x)
  BY StandsGrown
<1>4. x.state = "connected" /\ Own(w, x) => Continues(v, x, q, cl)
  BY <1>1, ContinuesGrown DEF SlaveWell
<1>5. ASSUME x.state = "psync" PROVE q # <<>> /\ Answered(v, x, Head(q), Tail(q), cl)
  <2> DEFINE item == Head(q)
             r == Tail(q)
  <2>1. q # <<>> /\ Answered(w, x, item, r, cl)
    BY <1>5 DEF SlaveWell
  <2>2. item \in Items /\ r \in Seq(Items)
    BY <2>1, HeadTailProperties
  <2> HIDE DEF item, r
  <2>3. item.kind = "continue" /\ Own(v, x) => Stands(v, x) /\ Continues(v, x, r, cl)
    BY <1>1, <1>2, <1>3, <2>1, <2>2, ContinuesGrown DEF Answered
  <2>4. ASSUME item.kind = "fullresync"
        PROVE  /\ item.runid <= v.run
               /\ item.runid = v.run /\ item.origin = "own"
                    => Promised(v, item.offset, r, cl)
    <3>1. item.offset \in Nat
      BY <2>2, <2>4, ItemFacts
    <3>2. /\ item.runid <= w.run
          /\ item.runid = w.run /\ item.origin = "own" => Promised(w, item.offset, r, cl)
      BY <2>1, <2>4 DEF Answered
    <3>3. QED
      BY <1>1, <2>2, <3>1, <3>2, PromisedGrown
  <2>5. item.kind \in {"continue", "fullresync"} /\ Plain(r)
    BY <2>1 DEF Answered
  <2>6. Answered(v, x, item, r, cl)
    BY <2>3, <2>4, <2>5 DEF Answered
  <2>7. QED
    BY <2>1, <2>6 DEF item, r
<1>6. x.state = "transfer" /\ Own(w, x) => Promised(v, x.reploff, q, cl)
  BY <1>1, PromisedGrown DEF SlaveWell
<1>7. QED
  BY <1>1, <1>2, <1>3, <1>4, <1>5, <1>6 DEF SlaveWell

-----------------------------------------------------------------------------
\* What is appended to what a slave has on its way.
LEMMA FollowsFed ==
  ASSUME NEW w, StreamWell(w), NEW v, StreamWell(v), NEW all \in Seq(Cells),
         v.stream = w.stream \o all, \A i \in 1..Len(all) : all[i].kind # "void",
         NEW n \in Nat, NEW S, NEW q \in Seq(S), Cells \subseteq S,
         Follows(w, n, q), ToTheEnd(w, n, q)
  PROVE  Follows(v, n, q \o all) /\ ToTheEnd(v, n, q \o all)
<1> DEFINE r == q \o all
           L == Len(w.stream)
<1>1. /\ w.stream \in Seq(Cells) /\ all \in Seq(S) /\ L \in Nat /\ Len(q) \in Nat
      /\ Len(all) \in Nat /\ n + Len(q) = L
  BY SeqMonotonic, LenProperties DEF StreamWell, Core, ToTheEnd
<1>2. /\ Len(r) = Len(q) + Len(all)
      /\ \A i \in 1..Len(q) : r[i] = q[i]
      /\ \A i \in 1..Len(all) : r[Len(q) + i] = all[i]
  BY <1>1, ConcatFacts
<1>3. /\ Len(v.stream) = L + Len(all)
      /\ \A i \in 1..L : v.stream[i] = w.stream[i]
      /\ \A i \in 1..Len(all) : v.stream[L + i] = all[i]
  BY <1>1, ConcatFacts
<1> HIDE DEF r, L
<1>9. /\ Len(q) \in Nat /\ Len(all) \in Nat /\ n + Len(q) = L
      /\ Len(r) = Len(q) + Len(all)
  BY <1>1, <1>2
<1>5. n + Len(r) = Len(v.stream)
  <2>1. Len(v.stream) = L + Len(all)
    BY <1>3
  <2>2. QED
    BY <1>9, <2>1
<1>4. ASSUME NEW k \in 1..Len(r) PROVE r[k] = v.stream[n + k] /\ r[k].kind # "void"
  <2>1. CASE k <= Len(q)
    <3>1. k \in 1..Len(q) /\ n + k \in 1..L
      BY <1>1, <1>2, <2>1
    <3>2. q[k] = w.stream[n + k] /\ q[k].kind # "void"
      BY <3>1 DEF Follows
    <3>3. QED
      BY <1>2, <1>3, <3>1, <3>2
  <2>2. CASE k > Len(q)
    <3> DEFINE i == k - Len(q)
    <3>1. i \in 1..Len(all) /\ k = Len(q) + i /\ n + k = L + i
      BY <1>9, <2>2
    <3> HIDE DEF i
    <3>2. r[k] = all[i] /\ v.stream[n + k] = all[i]
      BY <1>2, <1>3, <3>1
    <3>3. QED
      BY <3>1, <3>2
  <2>3. k <= Len(q) \/ k > Len(q)
    BY <1>9
  <2>4. QED
    BY <2>1, <2>2, <2>3
<1>6. n + Len(r) <= Len(v.stream)
  BY <1>9, <1>5
<1>7. Follows(v, n, r) /\ ToTheEnd(v, n, r)
  BY <1>4, <1>5, <1>6 DEF Follows, ToTheEnd
<1>8. QED
  BY <1>7 DEF r

\* Plain is of all the items.
LEMMA PlainFacts ==
  ASSUME NEW q \in Seq(Items)
  PROVE  /\ q \in Seq(Cells) => Plain(q)
         /\ Plain(q) /\ q # <<>> => Plain(Tail(q))
         /\ \A r \in Seq(Items) : Plain(q) /\ Plain(r) => Plain(q \o r)
<1>1. q \in Seq(Cells) => Plain(q)
  <2>1. ASSUME q \in Seq(Cells), NEW i \in 1..Len(q)
        PROVE  q[i].kind \notin {"continue", "fullresync"}
    <3>1. q[i] \in Cells
      BY <2>1, ElementOfSeq
    <3>2. QED
      BY <3>1, CellFacts
  <2>2. QED
    BY <2>1 DEF Plain
<1>2. ASSUME Plain(q), q # <<>> PROVE Plain(Tail(q))
  <2> DEFINE r == Tail(q)
  <2>1. /\ Len(q) \in Nat \ {0} /\ Len(r) = Len(q) - 1
        /\ \A i \in 1..Len(q) - 1 : r[i] = q[i + 1]
    BY <1>2, TailFacts
  <2> HIDE DEF r
  <2>2. ASSUME NEW i \in 1..Len(r) PROVE r[i].kind \notin {"continue", "fullresync"}
    <3>1. i \in 1..Len(q) - 1 /\ i + 1 \in 1..Len(q)
      BY <2>1
    <3>2. r[i] = q[i + 1]
      BY <2>1, <3>1
    <3>3. QED
      BY <1>2, <3>1, <3>2 DEF Plain
  <2>3. Plain(r)
    BY <2>2 DEF Plain
  <2>4. QED
    BY <2>3 DEF r
<1>3. ASSUME NEW r \in Seq(Items), Plain(q), Plain(r) PROVE Plain(q \o r)
  <2> DEFINE s == q \o r
  <2>1. /\ Len(q) \in Nat /\ Len(r) \in Nat /\ Len(s) = Len(q) + Len(r)
        /\ \A i \in 1..Len(q) : s[i] = q[i]
        /\ \A i \in 1..Len(r) : s[Len(q) + i] = r[i]
    BY ConcatFacts
  <2> HIDE DEF s
  <2>2. ASSUME NEW i \in 1..Len(s) PROVE s[i].kind \notin {"continue", "fullresync"}
    <3>1. CASE i <= Len(q)
      <4>1. i \in 1..Len(q)
        BY <2>1, <3>1
      <4>2. QED
        BY <1>3, <2>1, <4>1 DEF Plain
    <3>2. CASE i > Len(q)
      <4> DEFINE k == i - Len(q)
      <4>1. k \in 1..Len(r) /\ i = Len(q) + k
        BY <2>1, <3>2
      <4> HIDE DEF k
      <4>2. s[i] = r[k]
        BY <2>1, <4>1
      <4>3. QED
        BY <1>3, <4>1, <4>2 DEF Plain
    <3>3. QED
      BY <2>1, <3>1, <3>2
  <2>3. Plain(s)
    BY <2>2 DEF Plain
  <2>4. QED
    BY <2>3 DEF s
<1>4. QED
  BY <1>1, <1>2, <1>3

\* What FeedSlaves makes of a client and of what is on its way from it.
Fed(cl, cl2, q, q2, all) ==
  /\ cl2.state = cl.state /\ cl2.rdb = cl.rdb
  /\ cl.state \in {"end", "bulk"} => cl2.buf = cl.buf \o all
  /\ q2 = IF cl.state = "online" THEN q \o all ELSE q

LEMMA PromisedFed ==
  ASSUME NEW w, StreamWell(w), NEW v, StreamWell(v), Grown(w, v), v.child = w.child,
         NEW all \in Seq(Cells),
         v.stream = w.stream \o all, \A i \in 1..Len(all) : all[i].kind # "void",
         NEW n \in Nat, NEW q \in Seq(Items), NEW cl \in Clients,
         cl.state # "none", Promised(w, n, q, cl),
         NEW q2, NEW cl2, Fed(cl, cl2, q, q2, all)
  PROVE  Promised(v, n, q2, cl2)
<1>1. /\ Len(w.stream) \in Nat /\ Len(v.stream) \in Nat
      /\ Len(w.stream) <= Len(v.stream) /\ n \in 1..Len(w.stream)
  BY StreamFacts DEF Grown, Promised
<1>2. /\ n \in 1..Len(v.stream) /\ v.stream[n] = w.stream[n] /\ At(v, n) = At(w, n)
  BY <1>1, StreamFacts DEF Grown
<1>3. Unselected(v, n)
  BY <1>1, UnselectedGrown DEF Promised
<1>4. cl2.state = cl.state /\ cl.state \in {"end", "bulk", "online"}
  BY DEF Fed, Promised, Clients
<1>5. ASSUME cl2.state \in {"end", "bulk"}
      PROVE  q2 = <<>> /\ Follows(v, n, cl2.buf) /\ ToTheEnd(v, n, cl2.buf)
  <2>1. cl.buf \in Seq(Cells) /\ cl2.buf = cl.buf \o all /\ q2 = q
    BY <1>4, <1>5 DEF Clients, Fed
  <2>2. q = <<>> /\ Follows(w, n, cl.buf) /\ ToTheEnd(w, n, cl.buf)
    BY <1>4, <1>5 DEF Promised
  <2>3. QED
    BY <2>1, <2>2, FollowsFed
<1>6. ASSUME cl2.state = "online"
      PROVE  /\ q2 # <<>> /\ Head(q2) = Rdb(At(v, n))
             /\ Follows(v, n, Tail(q2)) /\ ToTheEnd(v, n, Tail(q2))
  <2>1. q2 = q \o all
    BY <1>4, <1>6 DEF Fed
  <2>2. /\ q # <<>> /\ Head(q) = Rdb(At(w, n)) /\ Follows(w, n, Tail(q))
        /\ ToTheEnd(w, n, Tail(q))
    BY <1>4, <1>6 DEF Promised
  <2>3. Tail(q) \in Seq(Items) /\ all \in Seq(Items) /\ Cells \subseteq Items
    BY <2>2, HeadTailProperties, CellsAreItems DEF Items
  <2>4. Follows(v, n, Tail(q) \o all) /\ ToTheEnd(v, n, Tail(q) \o all)
    BY <2>2, <2>3, FollowsFed
  <2>5. q2 # <<>> /\ Head(q2) = Head(q) /\ Tail(q2) = Tail(q) \o all
    BY <2>1, <2>2, <2>3, HeadOfTwo
  <2>6. QED
    BY <1>2, <2>2, <2>4, <2>5
<1>7. cl2.state = "end" => v.child = At(v, n)
  BY <1>2, <1>4 DEF Promised
<1>8. cl2.state = "bulk" => cl2.rdb = At(v, n)
  BY <1>2, <1>4 DEF Promised, Fed
<1>9. /\ cl2.state \in {"end", "bulk", "online"} /\ v.stream[n].kind # "head"
  BY <1>2, <1>4 DEF Promised
<1>10. QED
  BY <1>2, <1>3, <1>5, <1>6, <1>7, <1>8, <1>9 DEF Promised

LEMMA ContinuesFed ==
  ASSUME NEW w, StreamWell(w), NEW v, StreamWell(v), NEW all \in Seq(Cells),
         v.stream = w.stream \o all, \A i \in 1..Len(all) : all[i].kind # "void",
         NEW x, x.reploff \in Nat, NEW q \in Seq(Items), NEW cl,
         cl.state # "none", Continues(w, x, q, cl),
         NEW q2, NEW cl2, Fed(cl, cl2, q, q2, all)
  PROVE  Continues(v, x, q2, cl2)
<1>1. cl2.state = "online" /\ cl.state = "online" /\ q2 = q \o all
  BY DEF Continues, Fed
<1>2. Follows(w, x.reploff, q) /\ ToTheEnd(w, x.reploff, q)
  BY <1>1 DEF Continues
<1>3. Cells \subseteq Items
  BY DEF Items
<1>4. Follows(v, x.reploff, q2) /\ ToTheEnd(v, x.reploff, q2)
  BY <1>1, <1>2, <1>3, FollowsFed
<1>5. QED
  BY <1>1, <1>4 DEF Continues

\* The slaves when something is fed to them.
LEMMA FedWell ==
  ASSUME NEW w, StreamWell(w), NEW v, StreamWell(v), Grown(w, v), v.child = w.child,
         NEW all \in Seq(Cells),
         v.stream = w.stream \o all, \A i \in 1..Len(all) : all[i].kind # "void",
         NEW x, SlaveOK(x), NEW q \in Seq(Items), NEW cl \in Clients,
         cl.state # "none", SlaveWell(w, x, q, cl),
         NEW q2, NEW cl2, Fed(cl, cl2, q, q2, all)
  PROVE  SlaveWell(v, x, q2, cl2)
<1>1. x.reploff \in Nat /\ v.run = w.run
  BY DEF SlaveOK, SlaveStates, Grown
<1>2. Own(v, x) <=> Own(w, x)
  BY <1>1 DEF Own
<1>3. Stands(w, x) => Stands(v, x)
  BY StandsGrown
<1>4. all \in Seq(Items) /\ Plain(all)
  BY CellsAreItems, PlainFacts
<1>5. x.state = "connected" /\ Own(w, x) => Continues(v, x, q2, cl2)
  BY <1>1, ContinuesFed DEF SlaveWell
<1>6. ASSUME x.state = "psync" PROVE q2 # <<>> /\ Answered(v, x, Head(q2), Tail(q2), cl2)
  <2> DEFINE item == Head(q)
             r == Tail(q)
             r2 == IF cl.state = "online" THEN r \o all ELSE r
  <2>1. q # <<>> /\ Answered(w, x, item, r, cl)
    BY <1>6 DEF SlaveWell
  <2>2. item \in Items /\ r \in Seq(Items)
    BY <2>1, HeadTailProperties
  <2>3. q2 # <<>> /\ Head(q2) = item /\ Tail(q2) = r2
    <3>1. CASE cl.state = "online"
      BY <1>4, <2>1, <3>1, HeadOfTwo DEF Fed
    <3>2. CASE cl.state # "online"
      BY <2>1, <3>2 DEF Fed
    <3>3. QED
      BY <3>1, <3>2
  <2> HIDE DEF item, r
  <2>4. Fed(cl, cl2, r, r2, all)
    BY DEF Fed
  <2>5. item.kind \in {"continue", "fullresync"} /\ Plain(r) /\ Plain(r2)
    BY <1>4, <2>1, <2>2, PlainFacts DEF Answered
  <2> HIDE DEF r2
  <2>6. item.kind = "continue" /\ Own(v, x) => Stands(v, x) /\ Continues(v, x, r2, cl2)
    BY <1>1, <1>2, <1>3, <2>1, <2>2, <2>4, ContinuesFed DEF Answered
  <2>7. ASSUME item.kind = "fullresync"
        PROVE  /\ item.runid <= v.run
               /\ item.runid = v.run /\ item.origin = "own"
                    => Promised(v, item.offset, r2, cl2)
    <3>1. item.offset \in Nat
      BY <2>2, <2>7, ItemFacts
    <3>2. /\ item.runid <= w.run
          /\ item.runid = w.run /\ item.origin = "own" => Promised(w, item.offset, r, cl)
      BY <2>1, <2>7 DEF Answered
    <3>3. QED
      BY <1>1, <2>2, <2>4, <3>1, <3>2, PromisedFed
  <2>8. Answered(v, x, item, r2, cl2)
    BY <2>5, <2>6, <2>7 DEF Answered
  <2>9. QED
    BY <2>3, <2>8
<1>7. x.state = "transfer" /\ Own(w, x) => Promised(v, x.reploff, q2, cl2)
  BY <1>1, PromisedFed DEF SlaveWell
<1>8. Plain(q) => Plain(q2)
  BY <1>4, PlainFacts DEF Fed
<1>9. QED
  BY <1>1, <1>2, <1>3, <1>5, <1>6, <1>7, <1>8 DEF SlaveWell

-----------------------------------------------------------------------------
\* One more cell, and one more write.
LEMMA CoreAppend ==
  ASSUME NEW data \in Datasets, NEW cells, Core(cells, data), cells # <<>>,
         NEW b \in Cells, b.len <= Len(data), Linked(data, cells[Len(cells)], b)
  PROVE  LET all == Append(cells, b)
         IN Core(all, data) /\ all # <<>> /\ all[Len(all)] = b
<1> DEFINE all == Append(cells, b)
           n == Len(cells)
<1>1. cells \in Seq(Cells)
  BY DEF Core
<1>2. /\ all \in Seq(Cells) /\ n \in Nat /\ Len(all) = n + 1
      /\ \A i \in 1..n : all[i] = cells[i]
      /\ all[n + 1] = b
  BY <1>1, AppendFacts
<1>3. all # <<>>
  BY <1>2
<1> HIDE DEF all
<1>4. ASSUME NEW i \in 1..Len(all) PROVE all[i].len <= Len(data)
  <2>1. i \in 1..n \/ i = n + 1
    BY <1>2
  <2>2. QED
    BY <1>2, <2>1 DEF Core
<1>5. ASSUME NEW i \in 1..Len(all) - 1 PROVE Linked(data, all[i], all[i + 1])
  <2>1. CASE i = n
    <3>1. all[i] = cells[n] /\ all[i + 1] = b
      BY <1>2, <2>1
    <3>2. QED
      BY <3>1
  <2>2. CASE i # n
    <3>1. i \in 1..n - 1 /\ i \in 1..n /\ i + 1 \in 1..n
      BY <1>2, <2>2
    <3>2. all[i] = cells[i] /\ all[i + 1] = cells[i + 1]
      BY <1>2, <3>1
    <3>3. Linked(data, cells[i], cells[i + 1])
      BY <3>1 DEF Core, Links
    <3>4. QED
      BY <3>2, <3>3
  <2>3. QED
    BY <2>1, <2>2
<1>6. Core(all, data)
  BY <1>2, <1>4, <1>5 DEF Core, Links
<1>7. QED
  BY <1>2, <1>3, <1>6 DEF all

LEMMA CoreGrown ==
  ASSUME NEW data \in Datasets, NEW cells, Core(cells, data),
         NEW r \in [id : Nat, db : Nat]
  PROVE  Core(cells, Append(data, r))
<1> DEFINE d == Append(data, r)
<1>1. /\ d \in Datasets /\ Len(data) \in Nat /\ Len(d) = Len(data) + 1
      /\ \A i \in 1..Len(data) : d[i] = data[i]
  BY AppendFacts DEF Datasets
<1> HIDE DEF d
<1>2. cells \in Seq(Cells) /\ Len(cells) \in Nat
  BY LenProperties DEF Core
<1>3. ASSUME NEW i \in 1..Len(cells)
      PROVE  cells[i].len \in Nat /\ cells[i].len <= Len(data) /\ cells[i].len <= Len(d)
  <2>1. cells[i] \in Cells /\ cells[i].len <= Len(data)
    BY <1>2, ElementOfSeq DEF Core
  <2>2. cells[i].len \in Nat
    BY <2>1, CellFacts
  <2>3. QED
    BY <1>1, <2>1, <2>2
<1>4. ASSUME NEW i \in 1..Len(cells) - 1 PROVE Linked(d, cells[i], cells[i + 1])
  <2> DEFINE a == cells[i]
             b == cells[i + 1]
  <2>1. Linked(data, a, b)
    BY DEF Core, Links
  <2>2. i \in 1..Len(cells) /\ i + 1 \in 1..Len(cells)
    BY <1>2
  <2>3. a.len \in Nat /\ b.len \in Nat /\ b.len <= Len(data)
    BY <1>3, <2>2
  <2> HIDE DEF a, b
  <2>4. ASSUME b.kind = "tail" PROVE d[b.len] = data[b.len]
    <3>1. b.len = a.len + 1
      BY <2>1, <2>4 DEF Linked
    <3>2. b.len \in 1..Len(data)
      BY <1>1, <2>3, <3>1
    <3>3. QED
      BY <1>1, <3>2
  <2>5. Linked(d, a, b)
    BY <2>1, <2>4 DEF Linked
  <2>6. QED
    BY <2>5 DEF a, b
<1>5. Core(cells, d)
  BY <1>2, <1>3, <1>4 DEF Core, Links
<1>6. QED
  BY <1>5 DEF d

-----------------------------------------------------------------------------
\* What holds of a slave with what is on its way to it after the step.
LEMMA WellNext ==
  ASSUME NEW s, NEW c, c = slave'[s].conn,
         NEW q, q = IF c \in Conns THEN wire'[c] ELSE <<>>,
         NEW cl, cl = IF c \in Conns THEN client'[c] ELSE NoClient,
         SlaveWell(Now', slave'[s], q, cl)
  PROVE  WellAt(s)'
  BY DEF WellAt, WireAt, ClientAt

\* A slave that the step does not touch.
LEMMA OtherWell ==
  ASSUME IInv, Offsets, StreamWell(Now'), Grown(Now, Now'),
         NEW s \in Slaves, slave'[s] = slave[s], NEW c, c = slave[s].conn,
         c \in Conns => wire'[c] = wire[c] /\ client'[c] = client[c],
         ClientAt(c).state = "none" \/ Len(stream') = Len(stream),
         child' = child \/ child = NoChild
  PROVE  WellAt(s)'
<1> DEFINE q == IF c \in Conns THEN wire'[c] ELSE <<>>
           cl == IF c \in Conns THEN client'[c] ELSE NoClient
<1>1. q = WireAt(c) /\ cl = ClientAt(c)
  BY DEF WireAt, ClientAt
<1>2. SlaveWell(Now, slave[s], q, cl)
  BY <1>1 DEF Offsets, WellAt
<1>3. q \in Seq(Items) /\ cl \in Clients
  BY <1>1, WhatComes
<1>4. SlaveOK(slave[s])
  BY DEF IInv, SlavesOK
<1>5. /\ cl.state = "none" \/ Len(Now'.stream) = Len(Now.stream)
      /\ Now'.child = Now.child \/ Now.child = NoChild
  BY <1>1, NowFacts
<1>6. StreamWell(Now)
  BY DEF Offsets
<1> HIDE DEF q, cl
<1>7. SlaveWell(Now', slave[s], q, cl)
  BY <1>2, <1>3, <1>4, <1>5, <1>6, GrownWell
<1>8. QED
  BY <1>7, WellNext DEF q, cl

\* The slaves when the master feeds them.
LEMMA SlavesFed ==
  ASSUME IInv, Offsets, StreamWell(Now'), Grown(Now, Now'), slave' = slave, child' = child,
         NEW db, NEW cells, FeedSlaves(db, cells), ~(backlog = NoBacklog /\ Attached = {}),
         NEW all \in Seq(Cells),
         all = (IF slaveseldb = db THEN <<>> ELSE <<Cell("select", db, 0, Len(mdata))>>)
               \o cells,
         \A i \in 1..Len(all) : all[i].kind # "void",
         NEW s \in Slaves
  PROVE  WellAt(s)'
<1> DEFINE c == slave[s].conn
           sel == IF slaveseldb = db THEN <<>> ELSE <<Cell("select", db, 0, Len(mdata))>>
           For(state) == IF state = "start" THEN sel ELSE all
           q == WireAt(c)
           cl == ClientAt(c)
           q2 == IF c \in Conns THEN wire'[c] ELSE <<>>
           cl2 == IF c \in Conns THEN client'[c] ELSE NoClient
<1>1. /\ stream' = stream \o all
      /\ client' = [d \in Conns |->
           IF client[d].state \in {"none", "online"} THEN client[d]
           ELSE [client[d] EXCEPT !.buf = @ \o For(client[d].state)]]
      /\ wire' = [d \in Conns |->
           IF client[d].state = "online" THEN wire[d] \o all ELSE wire[d]]
  BY DEF FeedSlaves
<1>2. SlaveWell(Now, slave[s], q, cl) /\ StreamWell(Now)
  BY DEF Offsets, WellAt
<1>3. q \in Seq(Items) /\ cl \in Clients /\ SlaveOK(slave[s])
  BY WhatComes DEF IInv, SlavesOK
<1> HIDE DEF For
<1>4. CASE cl.state = "none"
  <2>1. c \in Conns => wire'[c] = wire[c] /\ client'[c] = client[c]
    BY <1>1, <1>4 DEF ClientAt
  <2>2. QED
    BY <1>4, <2>1, OtherWell
<1>5. CASE cl.state # "none"
  <2>1. c \in Conns /\ q = wire[c] /\ cl = client[c]
    BY <1>5 DEF ClientAt, WireAt, NoClient
  <2>2. /\ q2 = IF cl.state = "online" THEN q \o all ELSE q
        /\ cl2 = IF cl.state = "online" THEN cl
                 ELSE [cl EXCEPT !.buf = @ \o For(cl.state)]
    BY <1>1, <1>5, <2>1
  <2>3. cl.state \in {"end", "bulk"} => For(cl.state) = all
    BY DEF For
  <2> HIDE DEF q, cl, q2, cl2
  <2>4. Fed(cl, cl2, q, q2, all)
    BY <1>3, <2>2, <2>3 DEF Fed, Clients
  <2>5. Now'.stream = Now.stream \o all /\ Now'.child = Now.child
    BY <1>1, NowFacts
  <2>6. SlaveWell(Now', slave[s], q2, cl2)
    BY <1>2, <1>3, <1>5, <2>4, <2>5, FedWell
  <2>7. QED
    BY <2>6, WellNext DEF q2, cl2
<1>6. QED
  BY <1>4, <1>5

-----------------------------------------------------------------------------
\* The stream when something has been fed.
LEMMA FedStream ==
  ASSUME IInv, Offsets, mdata' \in Datasets, runid' = runid,
         backlog # NoBacklog, backlog' # NoBacklog,
         backlog \in Backlogs(Cells), backlog' \in Backlogs(Cells),
         backlog.off <= backlog'.off,
         NEW r \in [id : Nat, db : Nat], mdata' = mdata \/ mdata' = Append(mdata, r),
         NEW all \in Seq(Cells), all # <<>>, stream' = stream \o all,
         slaveseldb' \in Dbs \cup {NoDb},
         Core(stream', mdata'), all[Len(all)].kind # "head",
         all[Len(all)].db = slaveseldb', all[Len(all)].len = Len(mdata'),
         \A i \in 1..Len(all) : all[i].kind # "void",
         slaveseldb = NoDb => all[1].kind = "select" \/ all[1].db = NoDb
  PROVE  StreamWell(Now') /\ Grown(Now, Now') /\ BacklogWell'
<1> DEFINE L == Len(stream)
           m == Len(all)
<1>1. stream \in Seq(Cells) /\ mdata \in Datasets /\ runid \in Nat \ {0}
  BY NowFacts DEF IInv, StreamOK, DataOK, Offsets, StreamWell
<1>2. /\ L \in Nat /\ m \in Nat /\ Len(stream') = L + m
      /\ \A i \in 1..L : stream'[i] = stream[i]
      /\ \A i \in 1..m : stream'[L + i] = all[i]
  BY <1>1, ConcatFacts
<1>3. m # 0 /\ m \in 1..m /\ 1 \in 1..m
  <2>1. m # 0
    BY EmptySeq
  <2>2. QED
    BY <1>2, <2>1
<1> HIDE DEF L, m
<1>4. stream' # <<>> /\ stream'[Len(stream')] = all[m]
  <2>1. stream'[L + m] = all[m]
    BY <1>2, <1>3
  <2>2. Len(stream') # 0
    BY <1>2, <1>3
  <2>3. QED
    BY <1>2, <2>1, <2>2
<1>5. StreamWell(Now')
  BY <1>1, <1>4, NowFacts DEF StreamWell, m
<1>6. Grown(Now, Now')
  <2>1. ASSUME NEW i \in 1..L
        PROVE  SubSeq(mdata', 1, stream'[i].len) = SubSeq(mdata, 1, stream[i].len)
    <3>1. stream'[i] = stream[i]
      BY <1>2
    <3>2. stream[i].len \in 0..Len(mdata) /\ Len(mdata) \in Nat
      BY StreamFacts, NowFacts DEF Offsets, L
    <3>3. stream[i].len \in Nat /\ stream[i].len <= Len(mdata)
      BY <3>2
    <3>4. mdata \in Seq([id : Nat, db : Nat])
      BY <1>1 DEF Datasets
    <3>5. SubSeq(Append(mdata, r), 1, stream[i].len) = SubSeq(mdata, 1, stream[i].len)
      BY <3>3, <3>4, SamePrefix
    <3>6. QED
      BY <3>1, <3>5
  <2>2. slaveseldb = NoDb => /\ L # Len(stream')
                             /\ stream'[L + 1].kind = "select" \/ stream'[L + 1].db = NoDb
    <3>1. stream'[L + 1] = all[1]
      BY <1>2, <1>3
    <3>2. L # Len(stream')
      BY <1>2, <1>3
    <3>3. QED
      BY <3>1, <3>2
  <2>3. L <= Len(stream')
    BY <1>2
  <2>4. QED
    BY <1>2, <2>1, <2>2, <2>3, NowFacts DEF Grown, At, Unselected, L
<1>7. BacklogWell'
  <2>1. ASSUME NEW i \in backlog'.off..Len(stream') PROVE stream'[i].kind # "void"
    <3>1. backlog.off \in Nat /\ backlog'.off \in Nat /\ backlog.off > 0
      BY BacklogNumbers
    <3>2. CASE i <= L
      <4>1. i \in backlog.off..L /\ i \in 1..L
        BY <1>2, <3>1, <3>2
      <4>2. stream[i].kind # "void"
        BY <4>1 DEF Offsets, BacklogWell, L
      <4>3. QED
        BY <1>2, <4>1, <4>2
    <3>3. CASE i > L
      <4> DEFINE k == i - L
      <4>1. k \in 1..m /\ i = L + k
        BY <1>2, <3>1, <3>3
      <4> HIDE DEF k
      <4>2. stream'[i] = all[k] /\ all[k].kind # "void"
        BY <1>2, <4>1 DEF m
      <4>3. QED
        BY <4>2
    <3>4. i <= L \/ i > L
      BY <1>2, <3>1
    <3>5. QED
      BY <3>2, <3>3, <3>4
  <2>2. stream' # <<>> /\ stream'[Len(stream')].len = Len(mdata')
    BY <1>4 DEF m
  <2>3. QED
    BY <2>1, <2>2 DEF BacklogWell
<1>8. QED
  BY <1>5, <1>6, <1>7

LEMMA SameStream ==
  ASSUME Offsets, UNCHANGED <<stream, mdata, slaveseldb, runid>>
  PROVE  StreamWell(Now') /\ Grown(Now, Now')
<1>1. StreamWell(Now) /\ Len(stream) \in Nat
  BY StreamFacts, NowFacts DEF Offsets
<1>2. StreamWell(Now')
  BY <1>1, NowFacts DEF StreamWell
<1>3. Grown(Now, Now')
  BY <1>1, NowFacts DEF Grown, At, Unselected
<1>4. QED
  BY <1>2, <1>3

\* A write that is fed.
WrittenCells(db) ==
  (IF slaveseldb = db THEN <<>> ELSE <<Cell("select", db, 0, Len(mdata))>>)
  \o <<Cell("head", db, writes + 1, Len(mdata)),
       Cell("tail", db, writes + 1, Len(mdata) + 1)>>

LEMMA WriteFed ==
  ASSUME IInv, Offsets, NEW db \in Dbs, Write(db), backlog # NoBacklog,
         NEW all \in Seq(Cells), all = WrittenCells(db)
  PROVE  /\ all # <<>> /\ Core(stream \o all, mdata')
         /\ all[Len(all)].kind # "head" /\ all[Len(all)].db = db
         /\ all[Len(all)].len = Len(mdata')
         /\ \A i \in 1..Len(all) : all[i].kind # "void"
         /\ slaveseldb = NoDb => all[1].kind = "select"
         /\ mdata' = Append(mdata, [id |-> writes + 1, db |-> db])
         /\ [id |-> writes + 1, db |-> db] \in [id : Nat, db : Nat]
<1> DEFINE n == Len(mdata)
           r == [id |-> writes + 1, db |-> db]
           d == Append(mdata, r)
           sel == Cell("select", db, 0, n)
           head == Cell("head", db, writes + 1, n)
           tail == Cell("tail", db, writes + 1, n + 1)
           last == stream[Len(stream)]
<1>1. /\ mdata \in Datasets /\ n \in Nat /\ writes \in Nat /\ db \in Nat /\ db # NoDb
      /\ stream \in Seq(Cells) /\ mdata' = d
  BY DataLength, ReplicationConstants DEF IInv, DataOK, StreamOK, Write, NoDb
<1>2. r \in [id : Nat, db : Nat]
  BY <1>1
<1>3. d \in Datasets /\ Len(d) = n + 1 /\ d[n + 1] = r
  BY <1>1, <1>2, AppendFacts DEF Datasets
<1>4. sel \in Cells /\ head \in Cells /\ tail \in Cells
  BY <1>1 DEF Cell, Cells
<1>5. /\ sel.kind = "select" /\ sel.db = db /\ sel.len = n
      /\ head.kind = "head" /\ head.db = db /\ head.len = n
      /\ tail.kind = "tail" /\ tail.db = db /\ tail.len = n + 1 /\ tail.id = writes + 1
      /\ r = [id |-> tail.id, db |-> tail.db]
  BY DEF Cell
<1>6. /\ Core(stream, d) /\ stream # <<>> /\ last.len = n
      /\ slaveseldb # NoDb => last.db = slaveseldb
  <2>1. Core(stream, mdata)
    BY NowFacts DEF Offsets, StreamWell
  <2>2. QED
    BY <1>1, <1>2, <2>1, CoreGrown, NowFacts DEF Offsets, StreamWell, BacklogWell
<1>12. all = (IF slaveseldb = db THEN <<>> ELSE <<sel>>) \o <<head, tail>>
  BY DEF WrittenCells
<1> HIDE DEF n, r, d, sel, head, tail, last
<1>7. Linked(d, last, sel) /\ Linked(d, sel, head) /\ Linked(d, head, tail)
  BY <1>1, <1>3, <1>5, <1>6 DEF Linked
<1>8. slaveseldb = db => Linked(d, last, head)
  BY <1>1, <1>5, <1>6 DEF Linked
<1>9. sel.len <= Len(d) /\ head.len <= Len(d) /\ tail.len <= Len(d)
  BY <1>1, <1>3, <1>5
<1>10. CASE slaveseldb = db
  <2> DEFINE s1 == Append(stream, head)
             s2 == Append(s1, tail)
  <2>1. /\ all = <<head, tail>> /\ Len(all) = 2 /\ all[1] = head /\ all[2] = tail
    <3>1. <<head, tail>> \in Seq(Cells)
      BY <1>4
    <3>2. all = <<head, tail>>
      BY <1>10, <1>12, <3>1, ConcatEmptySeq
    <3>3. /\ Len(<<head, tail>>) = 2 /\ <<head, tail>>[1] = head
          /\ <<head, tail>>[2] = tail
      OBVIOUS
    <3>4. QED
      BY <3>2, <3>3
  <2>2. stream \o all = s2
    BY <1>1, <2>1, AppendedCells
  <2>3. Core(s1, d) /\ s1 # <<>> /\ s1[Len(s1)] = head
    BY <1>3, <1>4, <1>6, <1>8, <1>9, <1>10, CoreAppend DEF last
  <2> HIDE DEF s1
  <2>4. Core(s2, d)
    BY <1>3, <1>4, <1>7, <1>9, <2>3, CoreAppend
  <2>5. \A i \in 1..2 : i = 1 \/ i = 2
    OBVIOUS
  <2>6. \A i \in 1..Len(all) : all[i].kind # "void"
    BY <1>5, <2>1, <2>5
  <2>7. all # <<>>
    BY <2>1
  <2>8. QED
    BY <1>1, <1>2, <1>3, <1>5, <1>10, <2>1, <2>2, <2>4, <2>6, <2>7 DEF r, d
<1>11. CASE slaveseldb # db
  <2> DEFINE s1 == Append(stream, sel)
             s2 == Append(s1, head)
             s3 == Append(s2, tail)
  <2>1. /\ Len(all) = 3 /\ all[1] = sel /\ all[2] = head /\ all[3] = tail
    <3> DEFINE p == <<sel>>
               t == <<head, tail>>
    <3>1. all = p \o t
      BY <1>11, <1>12
    <3>8. p \in Seq(Cells) /\ t \in Seq(Cells)
      BY <1>4
    <3>2. Len(p) = 1 /\ p[1] = sel /\ Len(t) = 2 /\ t[1] = head /\ t[2] = tail
      BY <1>4
    <3>3. 1 \in 1..1 /\ 1 \in 1..2 /\ 2 \in 1..2
      OBVIOUS
    <3> HIDE DEF p, t
    <3>5. ASSUME NEW e \in Seq(Cells), NEW f \in Seq(Cells)
          PROVE  /\ Len(e \o f) = Len(e) + Len(f)
                 /\ \A i \in 1..Len(e) : (e \o f)[i] = e[i]
                 /\ \A i \in 1..Len(f) : (e \o f)[Len(e) + i] = f[i]
      BY ConcatFacts
    <3>6. /\ Len(all) = Len(p) + Len(t)
          /\ \A i \in 1..Len(p) : all[i] = p[i]
          /\ \A i \in 1..Len(t) : all[Len(p) + i] = t[i]
      BY <3>1, <3>5, <3>8
    <3>4. /\ Len(all) = 1 + 2 /\ all[1] = sel /\ all[1 + 1] = head
          /\ all[1 + 2] = tail
      BY <3>2, <3>3, <3>6
    <3>7. QED
      BY <3>4
  <2>2. stream \o all = s3
    BY <1>1, <2>1, AppendedCells
  <2>3. Core(s1, d) /\ s1 # <<>> /\ s1[Len(s1)] = sel
    BY <1>3, <1>4, <1>6, <1>7, <1>9, CoreAppend DEF last
  <2> HIDE DEF s1
  <2>4. Core(s2, d) /\ s2 # <<>> /\ s2[Len(s2)] = head
    BY <1>3, <1>4, <1>7, <1>9, <2>3, CoreAppend
  <2> HIDE DEF s2
  <2>5. Core(s3, d)
    BY <1>3, <1>4, <1>7, <1>9, <2>4, CoreAppend
  <2>6. \A i \in 1..3 : i = 1 \/ i = 2 \/ i = 3
    OBVIOUS
  <2>7. \A i \in 1..Len(all) : all[i].kind # "void"
    BY <1>5, <2>1, <2>6
  <2>8. all # <<>>
    BY <2>1
  <2>9. QED
    BY <1>1, <1>2, <1>3, <1>5, <2>1, <2>2, <2>5, <2>7, <2>8 DEF r, d
<1>13. QED
  BY <1>10, <1>11

LEMMA NoneAttached ==
  ASSUME NEW c, Attached = {} \/ c \notin Attached
  PROVE  ClientAt(c).state = "none"
  BY DEF Attached, ClientAt, NoClient

LEMMA SingleStays ==
  ASSUME Offsets, \A s \in Slaves : slave'[s].conn = slave[s].conn
  PROVE  Single'
  BY DEF Offsets, Single

LEMMA WriteWell ==
  ASSUME IInv, IInv', Offsets, NEW db \in Dbs, Write(db)
  PROVE  Offsets'
<1> DEFINE len == Len(mdata)
           r == [id |-> writes + 1, db |-> db]
           cells == <<Cell("head", db, writes + 1, len),
                      Cell("tail", db, writes + 1, len + 1)>>
           sel == IF slaveseldb = db THEN <<>> ELSE <<Cell("select", db, 0, len)>>
           all == sel \o cells
<1>1. /\ FeedSlaves(db, cells) /\ mdata' = Append(mdata, r)
      /\ UNCHANGED <<runid, child, slave>>
  BY DEF Write
<1>2. /\ mdata' \in Datasets /\ mdata \in Datasets /\ r \in [id : Nat, db : Nat]
      /\ len \in Nat /\ writes \in Nat
  BY DataLength, ReplicationConstants DEF IInv, DataOK, StreamOK
<1>3. Single'
  BY <1>1, SingleStays
<1>4. CASE backlog = NoBacklog /\ Attached = {}
  <2>1. UNCHANGED <<stream, backlog, slaveseldb, client, wire>>
    BY <1>1, <1>4 DEF FeedSlaves
  <2>2. StreamWell(Now) /\ Core(stream, mdata)
    BY NowFacts DEF Offsets, StreamWell
  <2>3. Core(stream', mdata')
    BY <1>1, <1>2, <2>1, <2>2, CoreGrown
  <2>4. StreamWell(Now')
    BY <1>1, <1>2, <2>1, <2>2, <2>3, NowFacts DEF StreamWell
  <2>5. Grown(Now, Now')
    <3>1. ASSUME NEW i \in 1..Len(stream)
          PROVE  SubSeq(mdata', 1, stream[i].len) = SubSeq(mdata, 1, stream[i].len)
      <4>1. stream[i].len \in 0..Len(mdata)
        BY <2>2, StreamFacts, NowFacts
      <4>2. stream[i].len \in Nat /\ stream[i].len <= Len(mdata)
        BY <1>2, <4>1
      <4>3. QED
        BY <1>1, <1>2, <4>2, SamePrefix DEF Datasets
    <3>2. Len(stream) \in Nat
      BY <2>2, StreamFacts, NowFacts
    <3>3. \A i \in 1..Len(Now.stream) : /\ Now'.stream[i] = Now.stream[i]
                                        /\ At(Now', i) = At(Now, i)
      BY <2>1, <3>1, NowFacts DEF At
    <3>4. Unselected(Now, Len(Now.stream)) => Unselected(Now', Len(Now.stream))
      BY <2>1, NowFacts DEF Unselected
    <3>5. Len(Now.stream) <= Len(Now'.stream) /\ Now'.run = Now.run
      BY <1>1, <2>1, <3>2, NowFacts
    <3>6. QED
      BY <3>3, <3>4, <3>5 DEF Grown
  <2>6. ASSUME NEW s \in Slaves PROVE WellAt(s)'
    BY <1>1, <1>4, <2>1, <2>4, <2>5, OtherWell, NoneAttached
  <2>7. BacklogWell'
    BY <1>4, <2>1 DEF BacklogWell
  <2>8. QED
    BY <1>3, <2>4, <2>6, <2>7 DEF Offsets
<1>5. CASE ~(backlog = NoBacklog /\ Attached = {})
  <2>1. /\ stream' = stream \o all
        /\ backlog' = FeedCells(backlog, Len(stream), all) /\ slaveseldb' = db
    BY <1>1, <1>5 DEF FeedSlaves
  <2>2. /\ backlog # NoBacklog /\ backlog \in Backlogs(Cells) /\ Holds(backlog, stream)
        /\ stream \in Seq(Cells)
    BY <1>5 DEF IInv, StreamOK, BacklogOK
  <2>3. all \in Seq(Cells) /\ Len(all) \in 1..3
    <3>1. /\ Cell("head", db, writes + 1, len) \in Cells
          /\ Cell("tail", db, writes + 1, len + 1) \in Cells
          /\ Cell("select", db, 0, len) \in Cells
      BY <1>2 DEF Cell, Cells
    <3>2. cells \in Seq(Cells) /\ Len(cells) = 2
      BY <3>1
    <3> HIDE DEF cells
    <3>3. sel \in Seq(Cells) /\ Len(sel) \in 0..1
      <4>1. CASE slaveseldb = db
        BY <4>1, EmptySeq
      <4>2. CASE slaveseldb # db
        BY <3>1, <4>2
      <4>3. QED
        BY <4>1, <4>2
    <3> HIDE DEF sel
    <3>4. all \in Seq(Cells) /\ Len(all) = Len(sel) + Len(cells)
      BY <3>2, <3>3, ConcatProperties
    <3> HIDE DEF all
    <3>5. \A m \in 0..1 : m + 2 \in 1..3
      OBVIOUS
    <3>6. QED
      BY <3>2, <3>3, <3>4, <3>5
  <2>5. /\ ~(backlog = NoBacklog /\ Attached = {}) /\ all = sel \o cells
        /\ all = WrittenCells(db)
    BY <1>5 DEF WrittenCells
  <2> HIDE DEF all
  <2>4. /\ all # <<>> /\ Core(stream \o all, mdata')
        /\ all[Len(all)].kind # "head" /\ all[Len(all)].db = db
        /\ all[Len(all)].len = Len(mdata')
        /\ \A i \in 1..Len(all) : all[i].kind # "void"
        /\ slaveseldb = NoDb => all[1].kind = "select"
    BY <2>2, <2>3, <2>5, WriteFed, ZenonT(40)
  <2>6. /\ backlog' \in Backlogs(Cells) /\ backlog' # NoBacklog
        /\ backlog.off <= backlog'.off
    BY <2>1, <2>2, <2>3, FeedCellsHolds, SomeBacklog
  <2>7. StreamWell(Now') /\ Grown(Now, Now') /\ BacklogWell'
    BY <1>1, <1>2, <2>1, <2>2, <2>3, <2>4, <2>6, FedStream
  <2>8. ASSUME NEW s \in Slaves PROVE WellAt(s)'
    BY <1>1, <2>3, <2>4, <2>5, <2>7, SlavesFed
  <2>9. QED
    BY <1>3, <2>7, <2>8 DEF Offsets
<1>6. QED
  BY <1>4, <1>5

LEMMA PingWell ==
  ASSUME IInv, IInv', Offsets, Ping
  PROVE  Offsets'
<1> DEFINE db == slaveseldb
           b == Cell("ping", db, 0, Len(mdata))
           all == (IF slaveseldb = db THEN <<>> ELSE <<Cell("select", db, 0, Len(mdata))>>)
                  \o <<b>>
           last == stream[Len(stream)]
<1>1. FeedSlaves(db, <<b>>) /\ UNCHANGED <<mdata, runid, child, slave>>
  BY DEF Ping
<1>2. /\ mdata' \in Datasets /\ mdata \in Datasets /\ Len(mdata) \in Nat
      /\ db \in Dbs \cup {NoDb} /\ 0 \in Dbs /\ Dbs \subseteq Nat
  BY DataLength, ReplicationConstants DEF IInv, DataOK, StreamOK
<1>3. Single'
  BY <1>1, SingleStays
<1>4. /\ b \in Cells /\ b.kind = "ping" /\ b.db = db /\ b.len = Len(mdata)
      /\ <<b>> \in Seq(Cells)
  <2>1. b \in Cells
    BY <1>2 DEF Cell, Cells
  <2>2. QED
    BY <2>1 DEF Cell
<1>5. all = <<b>>
  BY <1>4, ConcatEmptySeq
<1> HIDE DEF b
<1>6. CASE backlog = NoBacklog /\ Attached = {}
  <2>1. UNCHANGED <<stream, backlog, slaveseldb, client, wire>>
    BY <1>1, <1>6 DEF FeedSlaves
  <2>2. StreamWell(Now') /\ Grown(Now, Now')
    BY <1>1, <2>1, SameStream
  <2>3. ASSUME NEW s \in Slaves PROVE WellAt(s)'
    BY <1>1, <2>1, <2>2, OtherWell
  <2>4. BacklogWell'
    BY <1>6, <2>1 DEF BacklogWell
  <2>5. QED
    BY <1>3, <2>2, <2>3, <2>4 DEF Offsets
<1>7. CASE ~(backlog = NoBacklog /\ Attached = {})
  <2>1. /\ stream' = stream \o all
        /\ backlog' = FeedCells(backlog, Len(stream), all) /\ slaveseldb' = db
    BY <1>1, <1>7 DEF FeedSlaves
  <2>2. /\ backlog # NoBacklog /\ backlog \in Backlogs(Cells) /\ Holds(backlog, stream)
        /\ stream \in Seq(Cells)
    BY <1>7 DEF IInv, StreamOK, BacklogOK
  <2>3. /\ all \in Seq(Cells) /\ Len(all) = 1 /\ all[1] = b /\ all # <<>>
        /\ Len(all) \in 1..3
    BY <1>4, <1>5
  <2>4. /\ Core(stream, mdata) /\ stream # <<>> /\ last.len = Len(mdata)
        /\ slaveseldb # NoDb => last.db = slaveseldb
    BY <2>2, NowFacts DEF Offsets, StreamWell, BacklogWell
  <2>5. Linked(mdata, last, b)
    BY <1>2, <1>4, <2>4 DEF Linked
  <2>6. b.len <= Len(mdata)
    BY <1>2, <1>4
  <2>7. Core(Append(stream, b), mdata)
    BY <1>2, <1>4, <2>4, <2>5, <2>6, CoreAppend
  <2>8. stream \o all = Append(stream, b)
    BY <2>2, <2>3, AppendedCells
  <2>9. ~(backlog = NoBacklog /\ Attached = {})
    BY <1>7
  <2>10. \A i \in 1..Len(all) : all[i].kind # "void"
    <3>1. \A i \in 1..1 : i = 1
      OBVIOUS
    <3>2. QED
      BY <1>4, <2>3, <3>1
  <2>11. [id |-> 0, db |-> 0] \in [id : Nat, db : Nat]
    OBVIOUS
  <2>12. all = (IF slaveseldb = db THEN <<>> ELSE <<Cell("select", db, 0, Len(mdata))>>)
               \o <<b>>
    OBVIOUS
  <2> HIDE DEF all, last
  <2>13. /\ backlog' \in Backlogs(Cells) /\ backlog' # NoBacklog
         /\ backlog.off <= backlog'.off
    BY <2>1, <2>2, <2>3, FeedCellsHolds, SomeBacklog
  <2>14. StreamWell(Now') /\ Grown(Now, Now') /\ BacklogWell'
    <3>1. /\ all[Len(all)].kind # "head" /\ all[Len(all)].db = slaveseldb'
          /\ all[Len(all)].len = Len(mdata')
          /\ slaveseldb = NoDb => all[1].kind = "select" \/ all[1].db = NoDb
      BY <1>1, <1>4, <2>1, <2>3
    <3>2. Core(stream', mdata') /\ slaveseldb' \in Dbs \cup {NoDb}
      BY <1>1, <1>2, <2>1, <2>7, <2>8
    <3>3. QED
      BY <1>1, <1>2, <2>1, <2>2, <2>3, <2>10, <2>11, <2>13, <3>1, <3>2, FedStream
  <2>15. ASSUME NEW s \in Slaves PROVE WellAt(s)'
    BY <1>1, <2>3, <2>9, <2>10, <2>12, <2>14, SlavesFed
  <2>16. QED
    BY <1>3, <2>14, <2>15 DEF Offsets
<1>8. QED
  BY <1>6, <1>7

-----------------------------------------------------------------------------
LEMMA BgsaveWell ==
  ASSUME IInv, Offsets, Bgsave
  PROVE  Offsets'
<1>1. /\ UNCHANGED <<mdata, runid, stream, backlog, slaveseldb, client, wire, slave>>
      /\ child = NoChild
  BY DEF Bgsave
<1>2. StreamWell(Now') /\ Grown(Now, Now')
  BY <1>1, SameStream
<1>3. ASSUME NEW s \in Slaves PROVE WellAt(s)'
  BY <1>1, <1>2, OtherWell
<1>4. BacklogWell'
  BY <1>1 DEF Offsets, BacklogWell
<1>5. QED
  BY <1>1, <1>2, <1>3, <1>4, SingleStays DEF Offsets

LEMMA FreeBacklogWell ==
  ASSUME IInv, Offsets, FreeBacklog
  PROVE  Offsets'
<1>1. /\ UNCHANGED <<mdata, runid, stream, slaveseldb, child, client, wire, slave>>
      /\ backlog' = NoBacklog
  BY DEF FreeBacklog
<1>2. StreamWell(Now') /\ Grown(Now, Now')
  BY <1>1, SameStream
<1>3. ASSUME NEW s \in Slaves PROVE WellAt(s)'
  BY <1>1, <1>2, OtherWell
<1>4. BacklogWell'
  BY <1>1 DEF BacklogWell
<1>5. QED
  BY <1>1, <1>2, <1>3, <1>4, SingleStays DEF Offsets

LEMMA StutterWell ==
  ASSUME IInv, Offsets, UNCHANGED vars
  PROVE  Offsets'
<1>1. UNCHANGED <<mdata, runid, stream, backlog, slaveseldb, child, client, wire, slave>>
  BY DEF vars, masterVars
<1>2. StreamWell(Now') /\ Grown(Now, Now')
  BY <1>1, SameStream
<1>3. ASSUME NEW s \in Slaves PROVE WellAt(s)'
  BY <1>1, <1>2, OtherWell
<1>4. BacklogWell'
  BY <1>1 DEF Offsets, BacklogWell
<1>5. QED
  BY <1>1, <1>2, <1>3, <1>4, SingleStays DEF Offsets

\* No offset is one of the new run.
LEMMA RestartWell ==
  ASSUME IInv, Offsets, Restart
  PROVE  Offsets'
<1>1. /\ mdata' = dump /\ runid' = runid + 1 /\ stream' = <<>>
      /\ backlog' = NoBacklog /\ slaveseldb' = NoDb
      /\ client' = [c \in Conns |-> NoClient] /\ UNCHANGED <<wire, slave>>
  BY DEF Restart
<1>2. runid \in Nat \ {0} /\ dump \in Datasets
  BY NowFacts DEF IInv, DataOK, Offsets, StreamWell
<1>3. StreamWell(Now')
  <2>1. Core(<<>>, dump)
    BY EmptySeq DEF Core, Links
  <2>2. runid' \in Nat \ {0}
    BY <1>1, <1>2
  <2>3. QED
    BY <1>1, <1>2, <2>1, <2>2, NowFacts DEF StreamWell
<1>4. ASSUME NEW s \in Slaves PROVE WellAt(s)'
  <2> DEFINE x == slave[s]
             c == x.conn
             q == IF c \in Conns THEN wire'[c] ELSE <<>>
             cl == IF c \in Conns THEN client'[c] ELSE NoClient
  <2>1. SlaveWell(Now, x, q, ClientAt(c)) /\ q \in Seq(Items)
    BY <1>1, WhatComes DEF Offsets, WellAt, WireAt
  <2>2. x.runid \in Nat
    BY DEF IInv, SlavesOK, SlaveOK, SlaveStates
  <2> HIDE DEF x, q, cl
  <2>3. x.runid <= runid' /\ x.runid # runid'
    BY <1>1, <1>2, <2>1, <2>2, NowFacts DEF SlaveWell
  <2>4. ~Own(Now', x)
    BY <2>3, NowFacts DEF Own
  <2>5. ASSUME x.state = "psync" PROVE q # <<>> /\ Answered(Now', x, Head(q), Tail(q), cl)
    <3>1. q # <<>> /\ Answered(Now, x, Head(q), Tail(q), ClientAt(c))
      BY <2>1, <2>5 DEF SlaveWell
    <3>2. Head(q) \in Items
      BY <2>1, <3>1, HeadTailProperties
    <3>3. Head(q).kind = "fullresync" => Head(q).runid <= runid' /\ Head(q).runid # runid'
      <4>1. Head(q).kind = "fullresync" => Head(q).runid \in Nat
        BY <3>2, ItemFacts
      <4>2. Head(q).kind = "fullresync" => Head(q).runid <= runid
        BY <3>1, NowFacts DEF Answered
      <4>3. QED
        BY <1>1, <1>2, <4>1, <4>2
    <3>4. QED
      BY <2>4, <3>1, <3>3, NowFacts DEF Answered
  <2>6. SlaveWell(Now', x, q, cl)
    BY <2>1, <2>3, <2>4, <2>5, NowFacts DEF SlaveWell
  <2>7. QED
    BY <1>1, <2>6, WellNext DEF x, q, cl
<1>5. BacklogWell'
  BY <1>1 DEF BacklogWell
<1>6. QED
  BY <1>1, <1>3, <1>4, <1>5, SingleStays DEF Offsets

-----------------------------------------------------------------------------
\* A slave that does not change while its connection does.
LEMMA WellFrom ==
  ASSUME NEW w, NEW v, v.run = w.run, NEW x, x.reploff \in Nat,
         Stands(w, x) => Stands(v, x),
         NEW q \in Seq(Items), NEW cl, NEW q2, NEW cl2, SlaveWell(w, x, q, cl),
         Continues(w, x, q, cl) => Continues(v, x, q2, cl2),
         \A n \in Nat : Promised(w, n, q, cl) => Promised(v, n, q2, cl2),
         Plain(q) => Plain(q2),
         q # <<>> => /\ q2 # <<>> /\ Head(q2) = Head(q)
                     /\ Continues(w, x, Tail(q), cl) => Continues(v, x, Tail(q2), cl2)
                     /\ \A n \in Nat : Promised(w, n, Tail(q), cl)
                                         => Promised(v, n, Tail(q2), cl2)
                     /\ Plain(Tail(q)) => Plain(Tail(q2))
  PROVE  SlaveWell(v, x, q2, cl2)
<1>1. Own(v, x) <=> Own(w, x)
  BY DEF Own
<1>2. ASSUME x.state = "psync" PROVE q2 # <<>> /\ Answered(v, x, Head(q2), Tail(q2), cl2)
  <2> DEFINE item == Head(q)
  <2>1. q # <<>> /\ Answered(w, x, item, Tail(q), cl)
    BY <1>2 DEF SlaveWell
  <2>2. q2 # <<>> /\ Head(q2) = item
    BY <2>1
  <2>3. item \in Items
    BY <2>1, HeadTailProperties
  <2>4. item.kind = "fullresync" => item.offset \in Nat
    BY <2>3, ItemFacts
  <2> HIDE DEF item
  <2>5. Answered(v, x, item, Tail(q2), cl2)
    BY <1>1, <2>1, <2>4 DEF Answered
  <2>6. QED
    BY <2>2, <2>5
<1>3. QED
  BY <1>1, <1>2 DEF SlaveWell

\* The link is lost.
LEMMA LostWell ==
  ASSUME NEW w, NEW x, x.reploff \in Nat, NEW q \in Seq(Items), NEW cl,
         SlaveWell(w, x, q, cl)
  PROVE  SlaveWell(w, x, q, NoClient)
<1>1. NoClient.state = "none"
  BY DEF NoClient
<1>2. ASSUME NEW r, Continues(w, x, r, cl) PROVE Continues(w, x, r, NoClient)
  BY <1>1, <1>2 DEF Continues
<1>3. ASSUME NEW n, NEW r, Promised(w, n, r, cl) PROVE Promised(w, n, r, NoClient)
  BY <1>1, <1>3 DEF Promised
<1>4. QED
  BY <1>2, <1>3, WellFrom

LEMMA MasterLosesWell ==
  ASSUME IInv, Offsets, NEW c \in Conns, MasterLoses(c)
  PROVE  Offsets'
<1>1. /\ UNCHANGED <<mdata, runid, stream, backlog, slaveseldb, child, wire, slave>>
      /\ client' = [client EXCEPT ![c] = NoClient]
  BY DEF MasterLoses, masterVars
<1>2. StreamWell(Now') /\ Grown(Now, Now') /\ Now' = Now
  BY <1>1, SameStream DEF Now
<1>3. ASSUME NEW s \in Slaves PROVE WellAt(s)'
  <2>1. CASE slave[s].conn # c
    <3>1. slave[s].conn \in Conns => client'[slave[s].conn] = client[slave[s].conn]
      BY <1>1, <2>1 DEF IInv, ClientOK
    <3>2. QED
      BY <1>1, <1>2, <3>1, OtherWell
  <2>2. CASE slave[s].conn = c
    <3>1. SlaveWell(Now, slave[s], WireAt(c), ClientAt(c)) /\ WireAt(c) \in Seq(Items)
      BY <2>2, WhatComes DEF Offsets, WellAt
    <3>2. slave[s].reploff \in Nat
      BY DEF IInv, SlavesOK, SlaveOK, SlaveStates
    <3>3. SlaveWell(Now', slave[s], WireAt(c), NoClient)
      BY <1>2, <3>1, <3>2, LostWell
    <3>4. WireAt(c) = wire'[c] /\ client'[c] = NoClient
      BY <1>1 DEF WireAt, IInv, ClientOK
    <3>5. QED
      BY <1>1, <2>2, <3>3, <3>4, WellNext
  <2>3. QED
    BY <2>1, <2>2
<1>4. BacklogWell'
  BY <1>1 DEF Offsets, BacklogWell
<1>5. QED
  BY <1>1, <1>2, <1>3, <1>4, SingleStays DEF Offsets

\* The dataset is sent, and what has been kept for after it.
LEMMA SentWell ==
  ASSUME NEW w, NEW x, x.reploff \in Nat, NEW q \in Seq(Items), NEW cl \in Clients,
         cl.state = "bulk", SlaveWell(w, x, q, cl), NEW cl2, cl2.state = "online"
  PROVE  SlaveWell(w, x, q \o (<<Rdb(cl.rdb)>> \o cl.buf), cl2)
<1> DEFINE rdb == Rdb(cl.rdb)
           add == <<rdb>> \o cl.buf
<1>1. /\ cl.buf \in Seq(Cells) /\ cl.buf \in Seq(Items) /\ cl.rdb \in Datasets
  BY CellsAreItems DEF Clients
<1>2. rdb \in Items /\ rdb.kind = "rdb"
  BY <1>1 DEF Rdb, Items
<1>3. <<rdb>> \in Seq(Items) /\ <<rdb>> # <<>> /\ Head(<<rdb>>) = rdb /\ Tail(<<rdb>>) = <<>>
      /\ Len(<<rdb>>) = 1 /\ <<rdb>>[1] = rdb
  <2> HIDE DEF rdb
  <2>1. QED
    BY <1>2
<1>4. add \in Seq(Items) /\ add # <<>> /\ Head(add) = rdb /\ Tail(add) = cl.buf
  <2> HIDE DEF rdb
  <2>1. QED
    BY <1>1, <1>2, PrependFacts
<1>5. Plain(add)
  <2>1. Plain(<<rdb>>)
    <3> DEFINE one == <<rdb>>
    <3>1. Len(one) = 1 /\ one[1].kind = "rdb"
      BY <1>2, <1>3
    <3>2. \A i \in 1..1 : i = 1
      OBVIOUS
    <3> HIDE DEF one
    <3>3. Plain(one)
      BY <3>1, <3>2 DEF Plain
    <3>4. QED
      BY <3>3 DEF one
  <2>2. Plain(cl.buf)
    BY <1>1, PlainFacts
  <2>3. QED
    BY <1>1, <1>3, <2>1, <2>2, PlainFacts
<1> HIDE DEF add
<1>6. q \o add \in Seq(Items) /\ \A e \in Seq(Items) : e = <<>> => e \o add = add
  BY <1>4, ConcatProperties, ConcatEmptySeq
<1>7. ASSUME NEW r, Continues(w, x, r, cl) PROVE FALSE
  BY <1>7 DEF Continues
<1>8. ASSUME NEW n \in Nat, NEW r \in Seq(Items), Promised(w, n, r, cl)
      PROVE  Promised(w, n, r \o add, cl2)
  <2>1. /\ r = <<>> /\ Follows(w, n, cl.buf) /\ ToTheEnd(w, n, cl.buf)
        /\ cl.rdb = At(w, n)
    BY <1>8 DEF Promised
  <2>2. r \o add = add
    BY <1>4, <1>6, <2>1
  <2>3. Promised(w, n, add, cl2)
    BY <1>4, <1>8, <2>1 DEF Promised
  <2>4. QED
    BY <2>2, <2>3
<1>9. ASSUME NEW r \in Seq(Items), Plain(r) PROVE Plain(r \o add)
  BY <1>4, <1>5, <1>9, PlainFacts
<1>10. ASSUME q # <<>>
       PROVE  /\ q \o add # <<>> /\ Head(q \o add) = Head(q)
              /\ Tail(q \o add) = Tail(q) \o add /\ Tail(q) \in Seq(Items)
  BY <1>4, <1>10, HeadOfTwo, HeadTailProperties
<1>11. SlaveWell(w, x, q \o add, cl2)
  <2> DEFINE q2 == q \o add
  <2>1. \A n \in Nat : Promised(w, n, q, cl) => Promised(w, n, q2, cl2)
    BY <1>8
  <2>2. Plain(q) => Plain(q2)
    BY <1>9
  <2>3. q # <<>> => /\ q2 # <<>> /\ Head(q2) = Head(q)
                    /\ Continues(w, x, Tail(q), cl) => Continues(w, x, Tail(q2), cl2)
                    /\ \A n \in Nat : Promised(w, n, Tail(q), cl)
                                        => Promised(w, n, Tail(q2), cl2)
                    /\ Plain(Tail(q)) => Plain(Tail(q2))
    BY <1>7, <1>8, <1>9, <1>10
  <2>4. Continues(w, x, q, cl) => Continues(w, x, q2, cl2)
    BY <1>7
  <2> HIDE DEF q2
  <2>5. SlaveWell(w, x, q2, cl2)
    BY <2>1, <2>2, <2>3, <2>4, WellFrom
  <2>6. QED
    BY <2>5 DEF q2
<1>12. QED
  BY <1>11 DEF add

LEMMA SendBulkWell ==
  ASSUME IInv, Offsets, NEW c \in Conns, SendBulk(c)
  PROVE  Offsets'
<1> DEFINE new == [NoClient EXCEPT !.state = "online"]
           add == <<Rdb(client[c].rdb)>> \o client[c].buf
<1>1. /\ UNCHANGED <<mdata, runid, stream, backlog, slaveseldb, child, slave>>
      /\ client' = [client EXCEPT ![c] = new]
      /\ wire' = [wire EXCEPT ![c] = (wire[c] \o <<Rdb(client[c].rdb)>>) \o client[c].buf]
      /\ client[c].state = "bulk"
  BY DEF SendBulk, masterVars
<1>2. StreamWell(Now') /\ Grown(Now, Now') /\ Now' = Now
  BY <1>1, SameStream DEF Now
<1>3. wire[c] \in Seq(Items) /\ client[c] \in Clients
  BY DEF IInv, WireOK, ClientOK
<1>4. (wire[c] \o <<Rdb(client[c].rdb)>>) \o client[c].buf = wire[c] \o add
  <2>1. client[c].rdb \in Datasets /\ client[c].buf \in Seq(Items)
    BY <1>3, CellsAreItems DEF Clients
  <2>2. <<Rdb(client[c].rdb)>> \in Seq(Items)
    BY <2>1 DEF Rdb, Items
  <2>3. \A e, f, g \in Seq(Items) : (e \o f) \o g = e \o (f \o g)
    BY ConcatAssociative
  <2>4. QED
    BY <1>3, <2>1, <2>2, <2>3
<1> HIDE DEF add
<1>5. ASSUME NEW s \in Slaves PROVE WellAt(s)'
  <2>1. CASE slave[s].conn # c
    <3>1. slave[s].conn \in Conns =>
            /\ client'[slave[s].conn] = client[slave[s].conn]
            /\ wire'[slave[s].conn] = wire[slave[s].conn]
      BY <1>1, <2>1 DEF IInv, ClientOK, WireOK
    <3>2. QED
      BY <1>1, <1>2, <3>1, OtherWell
  <2>2. CASE slave[s].conn = c
    <3>1. SlaveWell(Now, slave[s], wire[c], client[c])
      BY <2>2 DEF Offsets, WellAt, WireAt, ClientAt
    <3>2. slave[s].reploff \in Nat
      BY DEF IInv, SlavesOK, SlaveOK, SlaveStates
    <3>3. new.state = "online"
      BY DEF NoClient
    <3> HIDE DEF new
    <3>4. SlaveWell(Now', slave[s], wire[c] \o add, new)
      BY <1>1, <1>2, <1>3, <3>1, <3>2, <3>3, SentWell DEF add
    <3>5. wire'[c] = wire[c] \o add /\ client'[c] = new
      BY <1>1, <1>4 DEF IInv, ClientOK, WireOK
    <3>6. QED
      BY <1>1, <2>2, <3>4, <3>5, WellNext
  <2>3. QED
    BY <2>1, <2>2
<1>6. BacklogWell'
  BY <1>1 DEF Offsets, BacklogWell
<1>7. QED
  BY <1>1, <1>2, <1>5, <1>6, SingleStays DEF Offsets

\* The BGSAVE has ended, well or not.
LEMMA DoneWell ==
  ASSUME NEW w, NEW v,
         v.stream = w.stream, v.data = w.data, v.sel = w.sel, v.run = w.run,
         NEW x, x.reploff \in Nat, NEW q \in Seq(Items), NEW cl, NEW cl2,
         SlaveWell(w, x, q, cl),
         cl.state = "end" => \/ cl2.state = "none"
                             \/ /\ cl2.state = "bulk" /\ cl2.buf = cl.buf
                                /\ cl2.rdb = w.child,
         cl.state \notin {"start", "end"} => cl2 = cl
  PROVE  SlaveWell(v, x, q, cl2)
<1>1. \A n : /\ At(v, n) = At(w, n)
             /\ Unselected(v, n) <=> Unselected(w, n)
             /\ \A r : /\ Follows(v, n, r) <=> Follows(w, n, r)
                       /\ ToTheEnd(v, n, r) <=> ToTheEnd(w, n, r)
  BY DEF At, Unselected, Follows, ToTheEnd
<1>2. Stands(w, x) => Stands(v, x)
  BY <1>1 DEF Stands
<1>3. ASSUME NEW r, Continues(w, x, r, cl) PROVE Continues(v, x, r, cl2)
  BY <1>1, <1>3 DEF Continues
<1>4. ASSUME NEW n, NEW r, Promised(w, n, r, cl) PROVE Promised(v, n, r, cl2)
  <2>1. /\ n \in 1..Len(v.stream) /\ v.stream[n].kind # "head" /\ Unselected(v, n)
        /\ r # <<>> => Head(r) = Rdb(At(v, n)) /\ Follows(v, n, Tail(r))
    BY <1>1, <1>4 DEF Promised
  <2>2. CASE cl.state = "end"
    <3>1. /\ r = <<>> /\ Follows(v, n, cl.buf) /\ ToTheEnd(v, n, cl.buf)
          /\ w.child = At(v, n)
      BY <1>1, <1>4, <2>2 DEF Promised
    <3>2. QED
      BY <2>1, <2>2, <3>1 DEF Promised
  <2>3. CASE cl.state # "end"
    <3>1. cl2 = cl /\ cl.state # "start"
      BY <1>4, <2>3 DEF Promised
    <3>2. /\ cl.state = "bulk" => /\ r = <<>> /\ Follows(v, n, cl.buf)
                                  /\ ToTheEnd(v, n, cl.buf) /\ cl.rdb = At(v, n)
          /\ cl.state = "online" => r # <<>> /\ ToTheEnd(v, n, Tail(r))
      BY <1>1, <1>4 DEF Promised
    <3>3. QED
      BY <2>1, <2>3, <3>1, <3>2 DEF Promised
  <2>4. QED
    BY <2>2, <2>3
<1>5. QED
  BY <1>2, <1>3, <1>4, WellFrom

LEMMA BgsaveDoneWell ==
  ASSUME IInv, Offsets, NEW ok \in BOOLEAN, BgsaveDone(ok)
  PROVE  Offsets'
<1>1. UNCHANGED <<mdata, runid, stream, backlog, slaveseldb, wire, slave>>
  BY DEF BgsaveDone
<1>2. StreamWell(Now')
  BY <1>1, SameStream
<1>3. ASSUME NEW s \in Slaves PROVE WellAt(s)'
  <2> DEFINE c == slave[s].conn
             q == WireAt(c)
             cl == ClientAt(c)
             cl2 == IF c \in Conns THEN client'[c] ELSE NoClient
  <2>1. /\ SlaveWell(Now, slave[s], q, cl) /\ q \in Seq(Items) /\ cl \in Clients
        /\ slave[s].reploff \in Nat
    BY WhatComes DEF Offsets, WellAt, IInv, SlavesOK, SlaveOK, SlaveStates
  <2>2. /\ cl.state = "end" => \/ cl2.state = "none"
                               \/ /\ cl2.state = "bulk" /\ cl2.buf = cl.buf
                                  /\ cl2.rdb = child
        /\ cl.state \notin {"start", "end"} => cl2 = cl
    <3>1. CASE c \notin Conns
      BY <3>1 DEF ClientAt, NoClient
    <3>2. CASE c \in Conns
      <4>1. cl = client[c] /\ cl2 = client'[c]
        BY <3>2 DEF ClientAt
      <4>2. client'[c] = CASE client[c].state = "start" -> [client[c] EXCEPT !.state = "end"]
               [] client[c].state = "end" /\ ok ->
                    [client[c] EXCEPT !.state = "bulk", !.rdb = child]
               [] client[c].state = "end" /\ ~ok -> NoClient
               [] OTHER -> client[c]
        BY <3>2 DEF BgsaveDone
      <4> HIDE DEF cl, cl2
      <4>3. CASE cl.state = "end" /\ ok
        <5>1. cl2 = [cl EXCEPT !.state = "bulk", !.rdb = child]
          BY <4>1, <4>2, <4>3, Zenon
        <5>2. QED
          BY <2>1, <4>3, <5>1 DEF Clients
      <4>4. CASE cl.state = "end" /\ ~ok
        <5>1. cl2 = NoClient
          BY <4>1, <4>2, <4>4, Zenon
        <5>2. QED
          BY <4>4, <5>1 DEF NoClient
      <4>5. CASE cl.state \notin {"start", "end"}
        <5>1. cl2 = cl
          BY <4>1, <4>2, <4>5, Zenon
        <5>2. QED
          BY <4>5, <5>1
      <4>6. QED
        BY <4>3, <4>4, <4>5
    <3>3. QED
      BY <3>1, <3>2
  <2>3. /\ Now'.stream = Now.stream /\ Now'.data = Now.data /\ Now'.sel = Now.sel
        /\ Now'.run = Now.run /\ Now.child = child
    BY <1>1, NowFacts
  <2>4. q = IF c \in Conns THEN wire'[c] ELSE <<>>
    BY <1>1 DEF WireAt
  <2> HIDE DEF q, cl, cl2
  <2>5. SlaveWell(Now', slave[s], q, cl2)
    BY <2>1, <2>2, <2>3, DoneWell
  <2>6. QED
    BY <1>1, <2>4, <2>5, WellNext DEF cl2
<1>4. BacklogWell'
  BY <1>1 DEF Offsets, BacklogWell
<1>5. QED
  BY <1>1, <1>2, <1>3, <1>4, SingleStays DEF Offsets

-----------------------------------------------------------------------------
\* A slave that loses its connection.
LEMMA SlaveLosesWell ==
  ASSUME IInv, Offsets, NEW s \in Slaves, SlaveLoses(s)
  PROVE  Offsets'
<1> DEFINE x == slave[s]
           c == x.conn
           y == CacheMaster(x)
<1>1. /\ UNCHANGED <<mdata, runid, stream, backlog, slaveseldb, child, client>>
      /\ slave' = [slave EXCEPT ![s] = y] /\ wire' = [wire EXCEPT ![c] = <<>>]
      /\ c # NoConn
  BY DEF SlaveLoses, masterVars
<1>2. StreamWell(Now') /\ Grown(Now, Now') /\ Now' = Now /\ runid \in Nat \ {0}
  BY <1>1, SameStream, NowFacts DEF Now, Offsets, StreamWell
<1>3. slave'[s] = y /\ \A t \in Slaves : t # s => slave'[t] = slave[t]
  BY <1>1 DEF IInv, SlavesOK
<1>4. /\ y.state = "connect" /\ y.conn = NoConn /\ y.data = x.data /\ y.db = x.db
      /\ y.half = x.half /\ y.reploff = x.reploff /\ y.origin = x.origin
      /\ x.state = "connected" => y.runid = x.runid
      /\ x.state # "connected" => y.runid = 0
      /\ x.runid <= runid
  <2>1. x \in SlaveStates
    BY DEF IInv, SlavesOK, SlaveOK
  <2>2. x.runid <= runid
    BY NowFacts DEF Offsets, WellAt, SlaveWell
  <2> HIDE DEF x
  <2>3. QED
    BY <2>1, <2>2 DEF CacheMaster, SlaveStates, NoRun
<1>5. ASSUME NEW t \in Slaves PROVE WellAt(t)'
  <2>1. CASE t = s
    <3>1. SlaveWell(Now, x, WireAt(c), ClientAt(c))
      BY DEF Offsets, WellAt
    <3> HIDE DEF x, c, y
    <3>2. Own(Now, y) => x.state = "connected" /\ Own(Now, x)
      BY <1>2, <1>4, NowFacts DEF Own
    <3>3. Own(Now, y) => Stands(Now, y)
      BY <1>4, <3>1, <3>2 DEF SlaveWell, Stands
    <3>4. SlaveWell(Now, y, <<>>, NoClient)
      BY <1>2, <1>4, <3>3, NowFacts DEF SlaveWell
    <3>5. NoConn \notin Conns
      BY ReplicationConstants
    <3>6. QED
      BY <1>2, <1>3, <1>4, <2>1, <3>4, <3>5, WellNext
  <2>2. CASE t # s
    <3>1. slave[t].conn # c
      BY <1>1, <2>2 DEF Offsets, Single
    <3>2. slave[t].conn \in Conns =>
            /\ client'[slave[t].conn] = client[slave[t].conn]
            /\ wire'[slave[t].conn] = wire[slave[t].conn]
      BY <1>1, <3>1 DEF IInv, WireOK
    <3>3. QED
      BY <1>1, <1>2, <1>3, <2>2, <3>2, OtherWell
  <2>3. QED
    BY <2>1, <2>2
<1>6. Single'
  BY <1>3, <1>4 DEF Offsets, Single
<1>7. BacklogWell'
  BY <1>1 DEF Offsets, BacklogWell
<1>8. QED
  BY <1>2, <1>5, <1>6, <1>7 DEF Offsets

-----------------------------------------------------------------------------
\* The connection that a slave has asked on is its own.
LEMMA AskedFacts ==
  ASSUME IInv, Offsets, NEW s \in Slaves, NEW c \in Conns, Connects(s, c)
  PROVE  /\ slave'[s] = Asks(slave[s], c) /\ slave[s].state = "connect"
         /\ \A t \in Slaves : slave[t].conn # c
         /\ \A t \in Slaves : t # s => slave'[t] = slave[t]
         /\ slave'[s].conn = c /\ slave'[s].state = "psync"
         /\ slave'[s].data = slave[s].data /\ slave'[s].db = slave[s].db
         /\ slave'[s].half = slave[s].half /\ slave'[s].reploff = slave[s].reploff
         /\ slave'[s].origin = slave[s].origin /\ slave'[s].runid = slave[s].runid
         /\ slave[s].runid <= runid /\ slave[s].reploff \in Nat
         /\ Own(Now, slave[s]) => Stands(Now, slave[s])
         /\ Single'
<1> DEFINE x == slave[s]
           y == slave'[s]
<1>1. /\ y = Asks(x, c) /\ x.state = "connect"
      /\ \A t \in Slaves : slave[t].conn # c
      /\ \A t \in Slaves : t # s => slave'[t] = slave[t]
  BY DEF Connects, Fresh, Free, IInv, SlavesOK
<1>2. x \in SlaveStates
  BY DEF IInv, SlavesOK, SlaveOK
<1>3. x.runid <= runid /\ (Own(Now, x) => Stands(Now, x))
  BY <1>1, NowFacts DEF Offsets, WellAt, SlaveWell
<1> HIDE DEF x, y
<1>4. /\ y.conn = c /\ y.state = "psync" /\ y.data = x.data /\ y.db = x.db
      /\ y.half = x.half /\ y.reploff = x.reploff /\ y.origin = x.origin
      /\ y.runid = x.runid /\ x.reploff \in Nat
  BY <1>1, <1>2 DEF Asks, SlaveStates
<1>5. Single'
  BY <1>1, <1>4 DEF Offsets, Single, y
<1>6. QED
  BY <1>1, <1>3, <1>4, <1>5 DEF x, y

\* What a slave that may continue is sent.
LEMMA ContinuedFacts ==
  ASSUME IInv, Offsets, NEW s \in Slaves, NEW c \in Conns, PartialSync(s, c),
         NEW r, r = FromBacklog(backlog, slave[s].reploff + 1)
  PROVE  /\ r \in Seq(Cells) /\ Follows(Now, slave[s].reploff, r)
         /\ ToTheEnd(Now, slave[s].reploff, r) /\ At(Now, Len(stream)) = mdata
         /\ <<Continue>> \o r # <<>> /\ Head(<<Continue>> \o r) = Continue
         /\ Tail(<<Continue>> \o r) = r /\ r \in Seq(Items)
<1> DEFINE o == slave[s].reploff
<1>1. Connects(s, c) /\ MayContinue(s)
  BY DEF PartialSync
<1>2. o \in Nat /\ backlog # NoBacklog /\ HasOffset(backlog, o + 1)
  BY <1>1, AskedFacts DEF MayContinue
<1>3. /\ r \in Seq(Cells) /\ o + Len(r) = Len(stream) /\ Len(r) \in Nat
      /\ \A k \in 1..Len(r) : r[k] = stream[o + k]
      /\ backlog.off <= o + 1 /\ backlog.off \in Nat
  BY <1>2, Served, LenProperties
<1>4. r \in Seq(Items) /\ Continue \in Items
  BY <1>3, CellsAreItems DEF Items
<1>5. /\ \A i \in backlog.off..Len(stream) : stream[i].kind # "void"
      /\ stream[Len(stream)].len = Len(mdata)
  BY <1>2 DEF Offsets, BacklogWell
<1> HIDE DEF o
<1>6. ASSUME NEW k \in 1..Len(r) PROVE r[k] = stream[o + k] /\ r[k].kind # "void"
  <2>1. Len(stream) \in Nat
    BY <1>2, <1>3
  <2>2. o + k \in backlog.off..Len(stream)
    BY <1>2, <1>3, <2>1
  <2>3. QED
    BY <1>3, <1>5, <2>2
<1>7. Follows(Now, o, r) /\ ToTheEnd(Now, o, r)
  <2>1. o + Len(r) <= Len(stream)
    BY <1>2, <1>3
  <2>2. QED
    BY <1>3, <1>6, <2>1, NowFacts DEF Follows, ToTheEnd
<1>8. At(Now, Len(stream)) = mdata
  <2>1. SubSeq(mdata, 1, Len(mdata)) = mdata
    BY SubSeqFull DEF IInv, DataOK, Datasets
  <2>2. QED
    BY <1>5, <2>1, NowFacts DEF At
<1>9. /\ <<Continue>> \o r # <<>> /\ Head(<<Continue>> \o r) = Continue
      /\ Tail(<<Continue>> \o r) = r
  BY <1>4, PrependFacts
<1>10. QED
  BY <1>3, <1>4, <1>7, <1>8, <1>9 DEF o

LEMMA PartialSyncWell ==
  ASSUME IInv, IInv', Offsets, NEW s \in Slaves, NEW c \in Conns, PartialSync(s, c)
  PROVE  Offsets'
<1> DEFINE x == slave[s]
           y == slave'[s]
           r == FromBacklog(backlog, x.reploff + 1)
           q == <<Continue>> \o r
           cl == [NoClient EXCEPT !.state = "online"]
<1>1. /\ UNCHANGED <<mdata, runid, stream, backlog, slaveseldb, child>>
      /\ client' = [client EXCEPT ![c] = cl] /\ wire' = [wire EXCEPT ![c] = q]
      /\ Connects(s, c) /\ MayContinue(s)
  BY DEF PartialSync, masterVars
<1>2. StreamWell(Now') /\ Grown(Now, Now') /\ Now' = Now /\ Now.stream = stream
  BY <1>1, SameStream, NowFacts DEF Now
<1>3. /\ r \in Seq(Cells) /\ Follows(Now, x.reploff, r) /\ ToTheEnd(Now, x.reploff, r)
      /\ q # <<>> /\ Head(q) = Continue /\ Tail(q) = r /\ r \in Seq(Items)
  <2> HIDE DEF r
  <2>1. r = FromBacklog(backlog, x.reploff + 1)
    BY DEF r
  <2>2. QED
    BY <2>1, ContinuedFacts
<1>4. Plain(r)
  <2> HIDE DEF r
  <2>1. QED
    BY <1>3, PlainFacts
<1>5. cl.state = "online"
  BY DEF NoClient
<1>6. client'[c] = cl /\ wire'[c] = q
  BY <1>1 DEF IInv, ClientOK, WireOK
<1> HIDE DEF r, q, cl
<1>7. /\ y.conn = c /\ y.state = "psync" /\ y.reploff = x.reploff /\ y.origin = x.origin
      /\ y.runid = x.runid /\ y.data = x.data /\ y.half = x.half /\ y.db = x.db
      /\ x.runid <= runid /\ Own(Now, x) => Stands(Now, x)
  BY <1>1, AskedFacts
<1>8. SlaveWell(Now', y, q, cl)
  <2> HIDE DEF x, y
  <2>1. Own(Now, y) => Stands(Now, y)
    BY <1>1, <1>7, AskedFacts DEF Own, Stands, x
  <2>2. Continues(Now, y, r, cl)
    BY <1>5, <1>3, <1>7 DEF Continues
  <2>3. Continue.kind = "continue"
    BY DEF Continue
  <2>4. Answered(Now, y, Continue, r, cl)
    BY <1>4, <2>1, <2>2, <2>3 DEF Answered
  <2>5. y.runid <= Now.run
    BY <1>1, <1>7, AskedFacts, NowFacts DEF x
  <2>6. SlaveWell(Now, y, q, cl)
    BY <1>3, <1>7, <2>4, <2>5 DEF SlaveWell
  <2>7. QED
    BY <1>2, <2>6
<1>9. ASSUME NEW t \in Slaves PROVE WellAt(t)'
  <2>1. CASE t = s
    BY <1>6, <1>7, <1>8, <2>1, WellNext
  <2>2. CASE t # s
    <3>1. slave[t].conn # c /\ slave'[t] = slave[t]
      BY <1>1, <2>2, AskedFacts
    <3>2. slave[t].conn \in Conns =>
            /\ client'[slave[t].conn] = client[slave[t].conn]
            /\ wire'[slave[t].conn] = wire[slave[t].conn]
      BY <1>1, <3>1 DEF IInv, WireOK, ClientOK
    <3>3. QED
      BY <1>1, <1>2, <3>1, <3>2, OtherWell
  <2>3. QED
    BY <2>1, <2>2
<1>10. BacklogWell'
  BY <1>1 DEF Offsets, BacklogWell
<1>11. QED
  BY <1>1, <1>2, <1>9, <1>10, AskedFacts DEF Offsets

-----------------------------------------------------------------------------
\* Where the stream is when a full resynchronisation is promised.
LEMMA PromisedStream ==
  ASSUME IInv, Offsets, NEW s \in Slaves, NEW c \in Conns, FullSync(s, c),
         NEW n, n = Len(stream) + (IF backlog = NoBacklog THEN 1 ELSE 0)
  PROVE  /\ StreamWell(Now') /\ Grown(Now, Now') /\ BacklogWell'
         /\ n \in 1..Len(stream') /\ n = Len(stream') /\ stream'[n].kind # "head"
         /\ Unselected(Now', n) /\ At(Now', n) = mdata
         /\ backlog # NoBacklog => Len(stream') = Len(stream)
         /\ backlog = NoBacklog => Attached = {}
<1> DEFINE void(len) == Cell("void", NoDb, 0, len)
           L == Len(stream)
<1>1. /\ slaveseldb' = NoDb /\ UNCHANGED <<mdata, runid>>
      /\ NoDb \in Dbs \cup {NoDb}
  BY DEF FullSync, AfterSync
<1>2. /\ stream \in Seq(Cells) /\ mdata \in Datasets /\ BacklogOK /\ L \in Nat
      /\ Len(mdata) \in Nat /\ Core(stream, mdata) /\ runid \in Nat \ {0}
  BY DataLength, LenProperties, NowFacts
     DEF IInv, StreamOK, DataOK, Offsets, StreamWell
<1>3. SubSeq(mdata, 1, Len(mdata)) = mdata
  BY <1>2, SubSeqFull DEF Datasets
<1>4. backlog = NoBacklog => Attached = {}
  BY <1>2 DEF BacklogOK
<1>5. ASSUME StreamWell(Now'), n \in 1..Len(stream'), n = Len(stream'),
             stream'[n].len = Len(mdata)
      PROVE  Unselected(Now', n) /\ At(Now', n) = mdata
  BY <1>1, <1>3, <1>5, NowFacts DEF Unselected, At
<1>6. CASE backlog = NoBacklog
  <2>1. /\ stream' = Append(stream, void(Len(mdata)))
        /\ backlog' = NewBacklog(Size, Len(stream) + 1, void(0))
    BY <1>4, <1>6 DEF FullSync
  <2>2. /\ void(Len(mdata)) \in Cells /\ void(Len(mdata)).kind = "void"
        /\ void(Len(mdata)).db = NoDb /\ void(Len(mdata)).len = Len(mdata)
        /\ void(0) \in Cells
    BY <1>2 DEF Cell, Cells
  <2> DEFINE b == void(Len(mdata))
  <2> HIDE DEF void
  <2>3. /\ stream' \in Seq(Cells) /\ Len(stream') = L + 1 /\ stream'[L + 1] = b
        /\ \A i \in 1..L : stream'[i] = stream[i]
    BY <1>2, <2>1, <2>2, AppendFacts
  <2>4. /\ n = L + 1 /\ n = Len(stream') /\ n \in 1..Len(stream') /\ stream' # <<>>
    BY <1>2, <1>6, <2>3
  <2>5. Core(stream', mdata)
    <3>1. CASE stream = <<>>
      <4>1. L = 0 /\ Len(stream') = 1 /\ stream'[1] = b
        BY <2>3, <3>1
      <4>2. \A i \in 1..1 : i = 1
        OBVIOUS
      <4>3. \A i \in 1..Len(stream') : stream'[i].len <= Len(mdata)
        BY <1>2, <2>2, <4>1, <4>2
      <4>4. 1..Len(stream') - 1 = {}
        BY <4>1
      <4>5. QED
        BY <2>3, <4>3, <4>4 DEF Core, Links
    <3>2. CASE stream # <<>>
      <4>1. Linked(mdata, stream[L], b)
        BY <2>2 DEF Linked
      <4>2. b.len <= Len(mdata)
        BY <1>2, <2>2
      <4>3. QED
        BY <1>2, <2>1, <2>2, <3>2, <4>1, <4>2, CoreAppend
    <3>3. QED
      BY <3>1, <3>2
  <2>6. StreamWell(Now')
    <3>1. stream'[Len(stream')].kind # "head"
      BY <2>2, <2>3, <2>4
    <3>2. QED
      BY <1>1, <1>2, <2>5, <3>1, NowFacts DEF StreamWell
  <2>7. Grown(Now, Now')
    <3>1. \A i \in 1..L : stream'[i] = stream[i] /\ At(Now', i) = At(Now, i)
      BY <1>1, <2>3, NowFacts DEF At
    <3>2. Unselected(Now', L)
      <4>1. L # Len(stream') /\ stream'[L + 1].db = NoDb
        BY <1>2, <2>2, <2>3
      <4>2. QED
        BY <4>1, NowFacts DEF Unselected
    <3>3. L <= Len(stream')
      BY <1>2, <2>3
    <3>4. QED
      BY <1>1, <3>1, <3>2, <3>3, NowFacts DEF Grown
  <2>8. BacklogWell'
    <3>1. Holds(backlog', stream') /\ backlog'.off = Len(stream') + 1
      <4>1. backlog'.off = Len(stream) + 1 + 1
        BY <2>1 DEF NewBacklog
      <4>2. Holds(backlog', stream')
        BY <2>1, <2>2, <2>3, NewHolds, ReplicationConstants
      <4>3. QED
        BY <1>2, <2>3, <4>1, <4>2
    <3>2. backlog'.off..Len(stream') = {}
      BY <1>2, <2>3, <3>1
    <3>3. stream'[Len(stream')].len = Len(mdata')
      BY <1>1, <2>2, <2>3
    <3>4. QED
      BY <2>4, <3>2, <3>3 DEF BacklogWell
  <2>9. stream'[n].len = Len(mdata) /\ stream'[n].kind # "head"
    BY <2>2, <2>3, <2>4
  <2>10. QED
    BY <1>4, <1>5, <1>6, <2>4, <2>6, <2>7, <2>8, <2>9
<1>7. CASE backlog # NoBacklog
  <2>1. UNCHANGED <<stream, backlog>>
    BY <1>7 DEF FullSync
  <2>2. stream # <<>> /\ stream[L].len = Len(mdata) /\ stream[L].kind # "head"
    BY <1>7, NowFacts DEF Offsets, BacklogWell, StreamWell
  <2>3. n = L /\ n = Len(stream') /\ n \in 1..Len(stream')
    <3>1. L # 0
      BY <1>2, <2>2, EmptySeq
    <3>2. QED
      BY <1>2, <1>7, <2>1, <3>1
  <2>4. StreamWell(Now')
    BY <1>1, <1>2, <2>1, <2>2, NowFacts DEF StreamWell
  <2>5. Grown(Now, Now')
    BY <1>1, <1>2, <2>1, NowFacts DEF Grown, At, Unselected
  <2>6. BacklogWell'
    BY <1>1, <2>1 DEF Offsets, BacklogWell
  <2>7. QED
    BY <1>5, <1>7, <2>1, <2>2, <2>3, <2>4, <2>5, <2>6
<1>8. QED
  BY <1>6, <1>7

LEMMA FullSyncWell ==
  ASSUME IInv, IInv', Offsets, NEW s \in Slaves, NEW c \in Conns, FullSync(s, c)
  PROVE  Offsets'
<1> DEFINE x == slave[s]
           y == slave'[s]
           n == Len(stream) + (IF backlog = NoBacklog THEN 1 ELSE 0)
           origin == IF child = NoChild THEN "own" ELSE "shared"
           answer == FullResync(runid, n, origin)
           q == <<answer>>
           fresh == [NoClient EXCEPT !.state = "end"]
<1>1. /\ Connects(s, c) /\ wire' = [wire EXCEPT ![c] = q]
      /\ child' = IF child = NoChild THEN mdata ELSE child
      /\ runid' = runid
  BY DEF FullSync
<1>2. PICK new : /\ client' = [client EXCEPT ![c] = new]
                 /\ child = NoChild => new = fresh
  BY DEF FullSync
<1>3. /\ StreamWell(Now') /\ Grown(Now, Now') /\ BacklogWell'
      /\ n \in 1..Len(stream') /\ n = Len(stream') /\ stream'[n].kind # "head"
      /\ Unselected(Now', n) /\ At(Now', n) = mdata
      /\ backlog # NoBacklog => Len(stream') = Len(stream)
      /\ backlog = NoBacklog => Attached = {}
  <2> HIDE DEF n
  <2>1. n = Len(stream) + (IF backlog = NoBacklog THEN 1 ELSE 0)
    BY DEF n
  <2>2. QED
    BY <2>1, PromisedStream
<1> HIDE DEF n, origin
<1>4. /\ answer.kind = "fullresync" /\ answer.runid = runid /\ answer.offset = n
      /\ answer.origin = origin
  BY DEF FullResync
<1> HIDE DEF answer
<1>5. q # <<>> /\ Head(q) = answer /\ Tail(q) = <<>>
  OBVIOUS
<1>6. client'[c] = new /\ wire'[c] = q
  BY <1>1, <1>2 DEF IInv, ClientOK, WireOK
<1> HIDE DEF q
<1>7. origin = "own" => Promised(Now', n, <<>>, new)
  <2>1. SUFFICES ASSUME origin = "own" PROVE Promised(Now', n, <<>>, new)
    OBVIOUS
  <2>2. child = NoChild /\ new = fresh /\ child' = mdata
    BY <1>1, <1>2, <2>1 DEF origin
  <2>3. new.state = "end" /\ new.buf = <<>>
    BY <2>2 DEF NoClient
  <2>4. Follows(Now', n, <<>>) /\ ToTheEnd(Now', n, <<>>)
    <3>1. Len(<<>>) = 0 /\ n + 0 = Len(stream') /\ n <= Len(stream')
      BY <1>3
    <3>2. 1..0 = {}
      OBVIOUS
    <3>3. QED
      BY <3>1, <3>2, NowFacts DEF Follows, ToTheEnd
  <2>5. /\ n \in 1..Len(Now'.stream) /\ Now'.stream[n].kind # "head"
        /\ Unselected(Now', n) /\ Now'.child = At(Now', n)
    BY <1>3, <2>2, NowFacts
  <2> HIDE DEF fresh
  <2>6. QED
    BY <2>3, <2>4, <2>5 DEF Promised
<1>8. /\ y.conn = c /\ y.state = "psync" /\ y.runid = x.runid /\ x.runid <= runid
  BY <1>1, AskedFacts
<1>9. SlaveWell(Now', y, q, new)
  <2> HIDE DEF x, y
  <2>1. Plain(<<>>)
    BY DEF Plain
  <2>2. runid \in Nat /\ runid <= runid
    <3>1. runid \in Nat
      BY DEF IInv, DataOK
    <3>2. QED
      BY <3>1
  <2>3. Answered(Now', y, answer, <<>>, new)
    BY <1>1, <1>4, <1>7, <2>1, <2>2, NowFacts DEF Answered
  <2>4. QED
    BY <1>1, <1>5, <1>8, <2>3, NowFacts DEF SlaveWell
<1>10. ASSUME NEW t \in Slaves PROVE WellAt(t)'
  <2>1. CASE t = s
    BY <1>6, <1>8, <1>9, <2>1, WellNext
  <2>2. CASE t # s
    <3>1. slave[t].conn # c /\ slave'[t] = slave[t]
      BY <1>1, <2>2, AskedFacts
    <3>2. slave[t].conn \in Conns =>
            /\ client'[slave[t].conn] = client[slave[t].conn]
            /\ wire'[slave[t].conn] = wire[slave[t].conn]
      BY <1>1, <1>2, <3>1 DEF IInv, WireOK, ClientOK
    <3>3. ClientAt(slave[t].conn).state = "none" \/ Len(stream') = Len(stream)
      BY <1>3, NoneAttached
    <3>4. QED
      BY <1>1, <1>3, <3>1, <3>2, <3>3, OtherWell
  <2>3. QED
    BY <2>1, <2>2
<1>11. QED
  BY <1>1, <1>3, <1>10, AskedFacts DEF Offsets

-----------------------------------------------------------------------------
\* The next cell on its way is the next cell of the stream.
LEMMA FollowsNext ==
  ASSUME NEW w, StreamWell(w), NEW n \in Nat, NEW S, NEW q \in Seq(S), q # <<>>,
         Follows(w, n, q)
  PROVE  /\ n < Len(w.stream) /\ n + 1 \in 1..Len(w.stream)
         /\ Head(q) = w.stream[n + 1] /\ w.stream[n + 1].kind # "void"
         /\ Follows(w, n + 1, Tail(q))
         /\ ToTheEnd(w, n, q) => ToTheEnd(w, n + 1, Tail(q))
<1> DEFINE r == Tail(q)
<1>1. /\ Len(q) \in Nat \ {0} /\ Len(r) = Len(q) - 1 /\ Head(q) = q[1]
      /\ \A i \in 1..Len(q) - 1 : r[i] = q[i + 1]
      /\ Len(w.stream) \in Nat
  BY TailFacts, StreamFacts
<1>2. /\ n + Len(q) <= Len(w.stream)
      /\ \A k \in 1..Len(q) : q[k] = w.stream[n + k] /\ q[k].kind # "void"
  BY DEF Follows
<1> HIDE DEF r
<1>3. n < Len(w.stream) /\ n + 1 \in 1..Len(w.stream) /\ 1 \in 1..Len(q)
  BY <1>1, <1>2
<1>4. ASSUME NEW k \in 1..Len(r) PROVE r[k] = w.stream[(n + 1) + k] /\ r[k].kind # "void"
  <2>1. k \in 1..Len(q) - 1 /\ k + 1 \in 1..Len(q) /\ n + (k + 1) = (n + 1) + k
    BY <1>1
  <2>2. r[k] = q[k + 1] /\ q[k + 1] = w.stream[n + (k + 1)] /\ q[k + 1].kind # "void"
    BY <1>1, <1>2, <2>1
  <2>3. QED
    BY <2>1, <2>2
<1>8. /\ Len(q) \in Nat \ {0} /\ Len(r) = Len(q) - 1 /\ Len(w.stream) \in Nat
      /\ n + Len(q) <= Len(w.stream)
  BY <1>1, <1>2
<1>5. /\ (n + 1) + Len(r) <= Len(w.stream)
      /\ n + Len(q) = Len(w.stream) => (n + 1) + Len(r) = Len(w.stream)
  BY <1>8
<1>6. Follows(w, n + 1, r) /\ (ToTheEnd(w, n, q) => ToTheEnd(w, n + 1, r))
  BY <1>4, <1>5 DEF Follows, ToTheEnd
<1>7. QED
  BY <1>1, <1>2, <1>3, <1>6 DEF r

\* A slave that reads.
LEMMA ReadsWell ==
  ASSUME NEW w, StreamWell(w), NEW x, SlaveOK(x), x.conn # NoConn,
         NEW q \in Seq(Items), q # <<>>, NEW cl \in Clients, SlaveWell(w, x, q, cl),
         NEW item, item = Head(q), NEW y,
         item.kind = "continue" => y = Resurrect(x),
         item.kind = "fullresync" => y = Accept(x, item),
         item.kind = "rdb" => y = Load(x, item.data),
         item.kind \notin {"continue", "fullresync", "rdb"} => y = Read(x, item)
  PROVE  SlaveWell(w, y, Tail(q), cl) /\ y.conn = x.conn
<1> DEFINE r == Tail(q)
<1>1. /\ item \in Items /\ r \in Seq(Items) /\ Len(q) \in Nat \ {0} /\ item = q[1]
      /\ item.kind \in {"select", "head", "tail", "ping", "void", "continue",
                        "fullresync", "rdb"}
  BY TailFacts, ItemFacts
<1>2. /\ x \in SlaveStates /\ x.state \in {"psync", "transfer", "connected"}
      /\ x.reploff \in Nat /\ x.runid \in Nat
      /\ cl.state \in {"none", "start", "end", "bulk", "online"}
  BY DEF SlaveOK, SlaveStates, Clients
<1>3. x.runid <= w.run
  BY DEF SlaveWell
<1> HIDE DEF r
<1>4. CASE item.kind = "continue"
  <2>1. y = Resurrect(x)
    BY <1>4
  <2>2. /\ y.state = "connected" /\ y.conn = x.conn /\ y.data = x.data /\ y.db = x.db
        /\ y.half = x.half /\ y.runid = x.runid /\ y.reploff = x.reploff
        /\ y.origin = "own" <=> x.origin = "own"
    BY <1>2, <2>1 DEF Resurrect, SlaveStates
  <2>3. x.state = "psync"
    <3>1. Plain(q) => FALSE
      BY <1>1, <1>4 DEF Plain
    <3>2. QED
      BY <1>2, <3>1 DEF SlaveWell
  <2>4. Answered(w, x, item, r, cl)
    BY <2>3 DEF SlaveWell, r
  <2>5. Own(w, y) => Stands(w, y) /\ Continues(w, y, r, cl)
    BY <1>4, <2>2, <2>4 DEF Own, Answered, Stands, Continues
  <2>6. QED
    BY <1>3, <2>2, <2>4, <2>5 DEF SlaveWell, Answered, r
<1>5. CASE item.kind = "fullresync"
  <2>1. y = Accept(x, item)
    BY <1>5
  <2>2. /\ y.state = "transfer" /\ y.conn = x.conn /\ y.runid = item.runid
        /\ y.reploff = item.offset /\ y.origin = item.origin
    BY <1>2, <2>1 DEF Accept, SlaveStates
  <2>3. x.state = "psync"
    <3>1. Plain(q) => FALSE
      BY <1>1, <1>5 DEF Plain
    <3>2. QED
      BY <1>2, <3>1 DEF SlaveWell
  <2>4. Answered(w, x, item, r, cl)
    BY <2>3 DEF SlaveWell, r
  <2>5. Own(w, y) => Promised(w, y.reploff, r, cl)
    BY <1>5, <2>2, <2>4 DEF Own, Answered
  <2>6. QED
    BY <1>5, <2>2, <2>4, <2>5 DEF SlaveWell, Answered, r
<1>6. CASE item.kind = "rdb"
  <2>1. y = Load(x, item.data)
    BY <1>6
  <2>2. /\ y.state = "connected" /\ y.conn = x.conn /\ y.data = item.data
        /\ y.half = FALSE /\ y.runid = x.runid
        /\ y.reploff = x.reploff /\ y.origin = x.origin
    BY <1>2, <2>1 DEF Load, SlaveStates
  <2>3. x.state \in {"transfer", "connected"}
    BY <1>2, <1>6 DEF SlaveWell, Answered
  <2>4. Plain(r)
    BY <2>3, PlainFacts DEF SlaveWell, r
  <2>5. ASSUME Own(w, x) PROVE Stands(w, y) /\ Continues(w, y, r, cl)
    <3>1. CASE x.state = "transfer"
      <4>1. Promised(w, x.reploff, q, cl)
        BY <2>5, <3>1 DEF SlaveWell
      <4>2. /\ x.reploff \in 1..Len(w.stream) /\ w.stream[x.reploff].kind # "head"
            /\ Unselected(w, x.reploff) /\ cl.state \notin {"start", "end", "bulk"}
            /\ item = Rdb(At(w, x.reploff)) /\ Follows(w, x.reploff, r)
            /\ cl.state = "online" => ToTheEnd(w, x.reploff, r)
        BY <4>1 DEF Promised, r
      <4>3. item.data = At(w, x.reploff)
        BY <4>2 DEF Rdb
      <4>4. Stands(w, y)
        BY <2>2, <4>2, <4>3 DEF Stands
      <4>5. QED
        BY <1>2, <2>2, <4>2, <4>4 DEF Continues
    <3>2. CASE x.state = "connected"
      <4>1. Follows(w, x.reploff, q)
        BY <2>5, <3>2 DEF SlaveWell, Continues
      <4>2. item = w.stream[x.reploff + 1] /\ x.reploff + 1 \in 1..Len(w.stream)
        BY <1>2, <4>1, FollowsNext
      <4>3. item \in Cells
        BY <4>2, StreamFacts
      <4>4. QED
        BY <1>6, <4>3, CellFacts
    <3>3. QED
      BY <2>3, <3>1, <3>2
  <2>6. QED
    BY <1>3, <2>2, <2>4, <2>5 DEF SlaveWell, Own, r
<1>7. CASE item.kind \in {"select", "head", "tail", "ping", "void"}
  <2>1. y = Read(x, item)
    BY <1>7
  <2>2. item \in Cells
    BY <1>1, <1>7, ItemFacts
  <2>3. /\ y.state = x.state /\ y.conn = x.conn /\ y.runid = x.runid
        /\ y.origin = x.origin /\ y.reploff = x.reploff + 1
    BY <2>1, <2>2, ReadFacts, ZenonT(40)
  <2>4. x.state \in {"transfer", "connected"}
    BY <1>2, <1>7 DEF SlaveWell, Answered
  <2>5. Plain(r)
    BY <2>4, PlainFacts DEF SlaveWell, r
  <2>6. CASE x.state = "transfer"
    <3>1. ~Own(w, x)
      BY <1>7, <2>6 DEF SlaveWell, Promised, Rdb
    <3>2. QED
      BY <1>3, <2>3, <2>5, <2>6, <3>1 DEF SlaveWell, Own, r
  <2>7. CASE x.state = "connected"
    <3>1. ASSUME Own(w, x) PROVE Stands(w, y) /\ Continues(w, y, r, cl)
      <4>1. Stands(w, x) /\ Continues(w, x, q, cl)
        BY <2>7, <3>1 DEF SlaveWell
      <4>2. /\ Follows(w, x.reploff, q) /\ cl.state \in {"none", "online"}
            /\ cl.state = "online" => ToTheEnd(w, x.reploff, q)
        BY <4>1 DEF Continues
      <4>3. /\ x.reploff < Len(w.stream) /\ item = w.stream[x.reploff + 1]
            /\ item.kind # "void" /\ Follows(w, x.reploff + 1, r)
            /\ cl.state = "online" => ToTheEnd(w, x.reploff + 1, r)
        BY <1>2, <4>2, FollowsNext DEF r
      <4>4. Stands(w, y)
        BY <2>1, <4>1, <4>3, StandsNext
      <4>5. QED
        BY <2>3, <4>2, <4>3, <4>4 DEF Continues
    <3>2. QED
      BY <1>3, <2>3, <2>5, <2>7, <3>1 DEF SlaveWell, Own, r
  <2>8. QED
    BY <2>4, <2>6, <2>7
<1>8. QED
  BY <1>1, <1>4, <1>5, <1>6, <1>7

LEMMA SlaveReadsWell ==
  ASSUME IInv, Offsets, NEW s \in Slaves, SlaveReads(s)
  PROVE  Offsets'
<1> DEFINE x == slave[s]
           c == x.conn
           q == wire[c]
           item == Head(q)
           y == CASE item.kind = "continue" -> Resurrect(x)
                  [] item.kind = "fullresync" -> Accept(x, item)
                  [] item.kind = "rdb" -> Load(x, item.data)
                  [] OTHER -> Read(x, item)
<1>1. /\ UNCHANGED <<mdata, runid, stream, backlog, slaveseldb, child, client>>
      /\ slave' = [slave EXCEPT ![s] = y] /\ wire' = [wire EXCEPT ![c] = Tail(q)]
      /\ c # NoConn /\ q # <<>>
  BY DEF SlaveReads, masterVars
<1>2. StreamWell(Now') /\ Grown(Now, Now') /\ Now' = Now /\ StreamWell(Now)
  BY <1>1, SameStream DEF Now, Offsets
<1>3. slave'[s] = y /\ \A t \in Slaves : t # s => slave'[t] = slave[t]
  BY <1>1 DEF IInv, SlavesOK
<1>4. SlaveOK(x) /\ c \in Conns
  BY <1>1 DEF IInv, SlavesOK, SlaveOK, SlaveStates
<1>5. /\ q \in Seq(Items) /\ client[c] \in Clients /\ wire'[c] = Tail(q)
      /\ SlaveWell(Now, x, q, client[c])
  BY <1>1, <1>4 DEF IInv, WireOK, ClientOK, Offsets, WellAt, WireAt, ClientAt
<1>6. SlaveWell(Now, y, Tail(q), client[c]) /\ y.conn = c
  <2> DEFINE e == item
             z == y
  <2>1. /\ e.kind = "continue" => z = Resurrect(x)
        /\ e.kind = "fullresync" => z = Accept(x, e)
        /\ e.kind = "rdb" => z = Load(x, e.data)
        /\ e.kind \notin {"continue", "fullresync", "rdb"} => z = Read(x, e)
    <3> HIDE DEF x
    <3>1. CASE item.kind = "continue"
      BY <3>1, Zenon
    <3>2. CASE item.kind = "fullresync"
      BY <3>2, Zenon
    <3>3. CASE item.kind = "rdb"
      BY <3>3, Zenon
    <3>4. CASE item.kind \notin {"continue", "fullresync", "rdb"}
      BY <3>4, Zenon
    <3>5. QED
      BY <3>1, <3>2, <3>3, <3>4, Zenon
  <2>2. e = Head(q)
    OBVIOUS
  <2> HIDE DEF z, e, x, q
  <2>3. SlaveWell(Now, z, Tail(q), client[c]) /\ z.conn = x.conn
    BY <1>1, <1>2, <1>4, <1>5, <2>1, <2>2, ReadsWell
  <2>4. QED
    BY <2>3 DEF z, x, q
<1> HIDE DEF y
<1>7. ASSUME NEW t \in Slaves PROVE WellAt(t)'
  <2>1. CASE t = s
    BY <1>1, <1>2, <1>3, <1>4, <1>5, <1>6, <2>1, WellNext
  <2>2. CASE t # s
    <3>1. slave[t].conn # c
      BY <1>1, <2>2 DEF Offsets, Single
    <3>2. slave[t].conn \in Conns =>
            /\ client'[slave[t].conn] = client[slave[t].conn]
            /\ wire'[slave[t].conn] = wire[slave[t].conn]
      BY <1>1, <3>1 DEF IInv, WireOK
    <3>3. QED
      BY <1>1, <1>2, <1>3, <2>2, <3>2, OtherWell
  <2>3. QED
    BY <2>1, <2>2
<1>8. \A t \in Slaves : slave'[t].conn = slave[t].conn
  BY <1>3, <1>6
<1>9. BacklogWell'
  BY <1>1 DEF Offsets, BacklogWell
<1>10. QED
  BY <1>2, <1>7, <1>8, <1>9, SingleStays DEF Offsets

-----------------------------------------------------------------------------
LEMMA OffsetsInit == Init => Offsets
<1> SUFFICES ASSUME Init PROVE Offsets
  OBVIOUS
<1>1. /\ Now.stream = <<>> /\ Now.data = <<>> /\ Now.sel = NoDb /\ Now.run = 1
  BY DEF Init, Now
<1>2. Core(<<>>, <<>>)
  BY EmptySeq DEF Core, Links
<1>3. StreamWell(Now)
  BY <1>1, <1>2, EmptyOK DEF StreamWell
<1>4. BacklogWell
  BY DEF Init, BacklogWell
<1>5. \A s \in Slaves : /\ slave[s].conn = NoConn /\ slave[s].runid = 0
                        /\ slave[s].state \in {"connect", "none"}
  BY DEF Init, NewSlave, NoRun
<1>6. Single
  BY <1>5 DEF Single
<1>7. ASSUME NEW s \in Slaves PROVE WellAt(s)
  <2>1. ~Own(Now, slave[s])
    BY <1>1, <1>5 DEF Own
  <2>2. QED
    BY <1>1, <1>5, <2>1 DEF WellAt, SlaveWell
<1>8. QED
  BY <1>3, <1>4, <1>6, <1>7 DEF Offsets

LEMMA OffsetsStep == IInv /\ IInv' /\ Offsets /\ [Next]_vars => Offsets'
<1> SUFFICES ASSUME IInv, IInv', Offsets, [Next]_vars PROVE Offsets'
  OBVIOUS
<1>1. CASE MasterStep
  <2>1. ASSUME NEW db \in Dbs, Write(db) PROVE Offsets'
    BY <2>1, WriteWell
  <2>2. ASSUME NEW ok \in BOOLEAN, BgsaveDone(ok) PROVE Offsets'
    BY <2>2, BgsaveDoneWell
  <2>3. ASSUME NEW c \in Conns, SendBulk(c) \/ MasterLoses(c) PROVE Offsets'
    BY <2>3, SendBulkWell, MasterLosesWell
  <2>4. ASSUME Ping \/ Bgsave \/ FreeBacklog \/ Restart PROVE Offsets'
    BY <2>4, PingWell, BgsaveWell, FreeBacklogWell, RestartWell
  <2>5. QED
    BY <1>1, <2>1, <2>2, <2>3, <2>4 DEF MasterStep
<1>2. CASE SlaveStep
  <2>1. ASSUME NEW s \in Slaves, NEW c \in Conns, PartialSync(s, c) \/ FullSync(s, c)
        PROVE  Offsets'
    BY <2>1, PartialSyncWell, FullSyncWell
  <2>2. ASSUME NEW s \in Slaves, SlaveReads(s) \/ SlaveLoses(s) PROVE Offsets'
    BY <2>2, SlaveReadsWell, SlaveLosesWell
  <2>3. QED
    BY <1>2, <2>1, <2>2 DEF SlaveStep, SyncCommand
<1>3. CASE UNCHANGED vars
  BY <1>3, StutterWell
<1>4. QED
  BY <1>1, <1>2, <1>3 DEF Next

LEMMA OffsetsHold == Spec => [](IInv /\ Offsets)
<1>1. IInv /\ Offsets /\ [Next]_vars => (IInv /\ Offsets)'
  BY StepOK, OffsetsStep
<1>2. QED
  BY <1>1, InitOK, OffsetsInit, PTL DEF Spec

(***************************************************************************)
(* The offset with which a slave that had a BGSAVE of its own asks to      *)
(* continue (slaveTryPartialResynchronization) names what it has executed: *)
(* its dataset is the one that the master's stream had made there.         *)
(***************************************************************************)
THEOREM OffsetIsRight == Spec => []OffsetNamesData
<1>1. ASSUME Offsets PROVE OffsetNamesData
  <2>1. ASSUME NEW s \in Slaves, OfThisRun(s), slave[s].origin = "own"
        PROVE  slave[s].data = DataAt(slave[s].reploff)
    <3>1. /\ Own(Now, slave[s]) /\ slave[s].state \in {"connect", "connected"}
      BY <2>1, NowFacts DEF OfThisRun, Own
    <3>2. Stands(Now, slave[s])
      BY <1>1, <3>1 DEF Offsets, WellAt, SlaveWell
    <3>3. QED
      BY <3>2, NowFacts DEF Stands, At, DataAt
  <2>2. QED
    BY <2>1 DEF OffsetNamesData
<1>2. QED
  BY <1>1, OffsetsHold, PTL

-----------------------------------------------------------------------------
(***************************************************************************)
(* What is on its way to a slave, and what its client of the master has    *)
(* buffered, make its dataset the master's.                                *)
(***************************************************************************)

\* The slave has what the master has, and goes on in the same database.
CaughtUp(w, x) == x.data = w.data /\ ~x.half /\ w.sel \in {NoDb, x.db}

\* It will have when it has read the cells.
Completes(w, x, q) == q \in Seq(Cells) /\ CaughtUp(w, Reads(x, q))

\* Any slave that loads the dataset and then reads the cells.
Loaded(x, data) ==
  SlaveOK(x) /\ x.state = "connected" /\ x.data = data /\ x.db = 0 /\ ~x.half
Coming(w, data, q) == \A x \in SlaveStates : Loaded(x, data) => Completes(w, x, q)
Delivered(w, q) ==
  /\ q # <<>> /\ Head(q).kind = "rdb" /\ Head(q).data \in Datasets
  /\ Coming(w, Head(q).data, Tail(q))

\* The buffer of a slave whose save has not begun has nothing but SELECTs, the
\* last of them for what is fed now.
Waits(w, buf) ==
  /\ buf \in Seq(Cells) /\ \A i \in 1..Len(buf) : buf[i].kind = "select"
  /\ w.sel # NoDb => buf # <<>> /\ w.sel = buf[Len(buf)].db

\* With the dataset that a client of the master is to get, its buffer is
\* complete.
ClientComes(w, cl) ==
  /\ cl.state = "start" => Waits(w, cl.buf)
  /\ cl.state = "end" => w.child # NoChild /\ Coming(w, w.child, cl.buf)
  /\ cl.state = "bulk" => Coming(w, cl.rdb, cl.buf)

\* Unsent the dataset is sent nothing is on the way but the answer to PSYNC.
OnlyAnswer(x, q) ==
  \/ x.state = "transfer" /\ q = <<>>
  \/ x.state = "psync" /\ Head(q).kind = "fullresync" /\ Tail(q) = <<>>

SlaveComes(w, x, q, cl) ==
  /\ cl.state \in {"start", "end", "bulk"} => OnlyAnswer(x, q)
  /\ cl.state = "online" =>
       /\ x.state = "connected" /\ x.origin # "resumed" => Completes(w, x, q)
       /\ x.state = "psync" /\ Head(q).kind = "continue" /\ x.origin = "own"
            => Completes(w, Resurrect(x), Tail(q))
       /\ x.state = "psync" /\ Head(q).kind = "fullresync" => Delivered(w, Tail(q))
       /\ x.state = "transfer" => Delivered(w, q)

\* The inductive invariant, of the clients and of the slaves.
Arrives ==
  /\ \A c \in Conns : ClientComes(Now, client[c])
  /\ \A s \in Slaves : LET c == slave[s].conn
                      IN c \in Conns => SlaveComes(Now, slave[s], wire[c], client[c])

-----------------------------------------------------------------------------
\* The states of a slave that reads cells one after the other.
Path(x, q, f) ==
  /\ DOMAIN f = 0..Len(q) /\ f[0] = x /\ \A i \in 0..Len(q) : SlaveOK(f[i])
  /\ \A i \in 1..Len(q) : f[i] = Read(f[i - 1], q[i])

LEMMA PathExists ==
  ASSUME NEW x, SlaveOK(x), NEW q \in Seq(Cells)
  PROVE  \E f : Path(x, q, f)
<1> DEFINE S == {z \in SlaveStates : SlaveOK(z)}
           n == Len(q)
           G == [p \in S \X (1..n) |-> Read(p[1], q[p[2]])]
<1>1. n \in Nat /\ \A i \in 1..n : q[i] \in Cells
  BY LenProperties, ElementOfSeq
<1>2. x \in S /\ \A z : z \in S <=> SlaveOK(z)
  BY DEF SlaveOK
<1> HIDE DEF S, n
<1>3. \A z \in S, i \in 1..n : Read(z, q[i]) \in S
  BY <1>1, <1>2, ReadOK
<1>4. G \in [S \X (1..n) -> S] /\ \A z \in S, i \in 1..n : G[<<z, i>>] = Read(z, q[i])
  BY <1>3
<1> HIDE DEF G
<1>5. PICK f : FoldOf(f, n, S, x, G)
  BY <1>1, <1>2, <1>4, FoldExists
<1>6. f \in [0..n -> S] /\ f[0] = x /\ \A i \in 1..n : f[i] = G[<<f[i - 1], i>>]
  BY <1>5 DEF FoldOf
<1>7. ASSUME NEW i \in 1..n PROVE f[i] = Read(f[i - 1], q[i])
  <2>1. i - 1 \in 0..n
    BY <1>1
  <2>2. QED
    BY <1>4, <1>6, <2>1
<1>8. Path(x, q, f)
  BY <1>2, <1>6, <1>7 DEF Path, n
<1>9. QED
  BY <1>8

\* Reads is where such a path ends.
LEMMA PathReads ==
  ASSUME NEW x, NEW q \in Seq(Cells), NEW f, Path(x, q, f)
  PROVE  Reads(x, q) = f[Len(q)] /\ SlaveOK(Reads(x, q))
<1> DEFINE n == Len(q)
           A(g) == g = [i \in 0..n |-> IF i = 0 THEN x ELSE Read(g[i - 1], q[i])]
           a == CHOOSE g : A(g)
<1>1. n \in Nat
  BY LenProperties
<1>2. /\ f[0] = x /\ \A i \in 1..n : f[i] = Read(f[i - 1], q[i])
      /\ DOMAIN f = 0..n /\ \A i \in 0..n : SlaveOK(f[i])
  BY DEF Path
<1>3. Reads(x, q) = a[n]
  BY DEF Reads
<1> HIDE DEF n
<1>4. PICK h : h = [i \in 0..n |-> f[i]]
  OBVIOUS
<1>5. A(h)
  <2>1. ASSUME NEW i \in 0..n
        PROVE  h[i] = IF i = 0 THEN x ELSE Read(h[i - 1], q[i])
    <3>1. CASE i = 0
      BY <1>2, <1>4, <3>1
    <3>2. CASE i # 0
      <4>1. i \in 1..n /\ i - 1 \in 0..n
        BY <1>1, <3>2
      <4>2. h[i] = f[i] /\ h[i - 1] = f[i - 1]
        BY <1>4, <4>1
      <4>3. QED
        BY <1>2, <3>2, <4>1, <4>2
    <3>3. QED
      BY <3>1, <3>2
  <2>2. h = [i \in 0..n |-> h[i]]
    BY <1>4
  <2>3. QED
    BY <2>1, <2>2
<1>6. A(a)
  BY <1>5
<1>7. GoAlike(a, f, n)
  <2> DEFINE b == a
  <2>1. b = [i \in 0..n |-> IF i = 0 THEN x ELSE Read(b[i - 1], q[i])]
    BY <1>6
  <2> HIDE DEF b
  <2>2. b[0] = x
    BY <1>1, <2>1
  <2>3. ASSUME NEW k \in 0..n - 1, b[k] = f[k] PROVE b[k + 1] = f[k + 1]
    <3>1. k + 1 \in 1..n /\ k + 1 \in 0..n /\ (k + 1) - 1 = k /\ k + 1 # 0
      BY <1>1
    <3>2. b[k + 1] = Read(b[k], q[k + 1])
      BY <2>1, <3>1
    <3>3. f[k + 1] = Read(f[k], q[k + 1])
      BY <1>2, <3>1
    <3>4. QED
      BY <2>3, <3>2, <3>3
  <2>4. QED
    BY <1>2, <2>2, <2>3 DEF GoAlike, b
<1> HIDE DEF a
<1>8. a[n] = f[n] /\ n \in 0..n
  BY <1>1, <1>7, FoldUnique
<1>9. QED
  BY <1>2, <1>3, <1>8 DEF n

LEMMA ReadsNone ==
  ASSUME NEW x, SlaveOK(x)
  PROVE  Reads(x, <<>>) = x
<1> DEFINE q == <<>>
<1>1. q \in Seq(Cells) /\ Len(q) = 0
  BY EmptySeq
<1> HIDE DEF q
<1>2. PICK f : Path(x, q, f)
  BY <1>1, PathExists
<1>3. Reads(x, q) = f[0] /\ f[0] = x
  BY <1>1, <1>2, PathReads DEF Path
<1>4. QED
  BY <1>3 DEF q

LEMMA ReadsOne ==
  ASSUME NEW x, SlaveOK(x), NEW b \in Cells
  PROVE  Reads(x, <<b>>) = Read(x, b)
<1> DEFINE q == <<b>>
<1>1. q \in Seq(Cells) /\ Len(q) = 1 /\ q[1] = b
  OBVIOUS
<1> HIDE DEF q
<1>2. PICK f : Path(x, q, f)
  BY <1>1, PathExists
<1>3. 1 \in 1..Len(q) /\ 1 - 1 = 0
  BY <1>1
<1>4. Reads(x, q) = f[1] /\ f[1] = Read(x, b)
  BY <1>1, <1>2, <1>3, PathReads DEF Path
<1>5. QED
  BY <1>4 DEF q

\* What is read in two parts.
LEMMA ReadsJoined ==
  ASSUME NEW x, SlaveOK(x), NEW q \in Seq(Cells), NEW r \in Seq(Cells)
  PROVE  /\ q \o r \in Seq(Cells) /\ SlaveOK(Reads(x, q))
         /\ Reads(x, q \o r) = Reads(Reads(x, q), r)
<1> DEFINE all == q \o r
           m == Len(q)
           n == Len(r)
<1>1. /\ all \in Seq(Cells) /\ m \in Nat /\ n \in Nat /\ Len(all) = m + n
      /\ \A i \in 1..m : all[i] = q[i]
      /\ \A i \in 1..n : all[m + i] = r[i]
  BY ConcatFacts
<1>2. PICK f : Path(x, q, f)
  BY PathExists
<1>3. Reads(x, q) = f[m] /\ SlaveOK(f[m])
  BY <1>2, PathReads
<1>4. PICK g : Path(f[m], r, g)
  BY <1>3, PathExists
<1>5. Reads(f[m], r) = g[n]
  BY <1>4, PathReads
<1> HIDE DEF all
<1> DEFINE h == [i \in 0..m + n |-> IF i <= m THEN f[i] ELSE g[i - m]]
<1>6. /\ f[0] = x /\ \A i \in 1..m : f[i] = Read(f[i - 1], q[i])
      /\ \A i \in 0..m : SlaveOK(f[i])
  BY <1>2 DEF Path
<1>7. /\ g[0] = f[m] /\ \A i \in 1..n : g[i] = Read(g[i - 1], r[i])
      /\ \A i \in 0..n : SlaveOK(g[i])
  BY <1>4 DEF Path
<1> HIDE DEF m, n
<1>8. /\ \A i \in 0..m : h[i] = f[i]
      /\ \A i \in 0..n : h[m + i] = g[i]
  <2>1. ASSUME NEW i \in 0..m PROVE h[i] = f[i]
    BY <1>1
  <2>2. ASSUME NEW i \in 0..n PROVE h[m + i] = g[i]
    <3>1. CASE i = 0
      BY <1>1, <1>7, <3>1
    <3>2. CASE i # 0
      BY <1>1, <3>2
    <3>3. QED
      BY <3>1, <3>2
  <2>3. QED
    BY <2>1, <2>2
<1>9. DOMAIN h = 0..m + n
  OBVIOUS
<1> HIDE DEF h
<1>10. ASSUME NEW i \in 0..m + n PROVE SlaveOK(h[i])
  <2>1. CASE i <= m
    <3>1. i \in 0..m
      BY <1>1, <2>1
    <3>2. QED
      BY <1>6, <1>8, <3>1
  <2>2. CASE i > m
    <3>1. i - m \in 0..n /\ m + (i - m) = i
      BY <1>1, <2>2
    <3>2. QED
      BY <1>7, <1>8, <3>1
  <2>3. QED
    BY <1>1, <2>1, <2>2
<1>11. ASSUME NEW i \in 1..m + n PROVE h[i] = Read(h[i - 1], all[i])
  <2>1. CASE i <= m
    <3>1. i \in 1..m /\ i \in 0..m /\ i - 1 \in 0..m
      BY <1>1, <2>1
    <3>2. QED
      BY <1>1, <1>6, <1>8, <3>1
  <2>2. CASE i > m
    <3> DEFINE k == i - m
    <3>1. k \in 1..n /\ k \in 0..n /\ k - 1 \in 0..n /\ m + k = i /\ m + (k - 1) = i - 1
      BY <1>1, <2>2
    <3> HIDE DEF k
    <3>2. h[i] = g[k] /\ h[i - 1] = g[k - 1] /\ all[i] = r[k]
      BY <1>1, <1>8, <3>1
    <3>3. QED
      BY <1>7, <3>1, <3>2
  <2>3. QED
    BY <1>1, <2>1, <2>2
<1>12. h[0] = x /\ h[m + n] = g[n]
  <2>1. 0 \in 0..m /\ n \in 0..n
    BY <1>1
  <2>2. QED
    BY <1>6, <1>8, <2>1
<1>13. Path(x, all, h)
  BY <1>1, <1>9, <1>10, <1>11, <1>12 DEF Path
<1>14. Reads(x, all) = g[n]
  BY <1>1, <1>12, <1>13, PathReads
<1>15. QED
  BY <1>1, <1>3, <1>5, <1>14 DEF all, m, n

-----------------------------------------------------------------------------
\* Cells that take whoever has caught up with w to v.
Advances(w, v, all) ==
  \A y \in SlaveStates : SlaveOK(y) /\ CaughtUp(w, y) => CaughtUp(v, Reads(y, all))

LEMMA CompletesMore ==
  ASSUME NEW w, NEW v, NEW x, SlaveOK(x), NEW q, Completes(w, x, q),
         NEW all \in Seq(Cells), Advances(w, v, all)
  PROVE  Completes(v, x, q \o all)
<1>1. q \in Seq(Cells) /\ CaughtUp(w, Reads(x, q))
  BY DEF Completes
<1>2. /\ q \o all \in Seq(Cells) /\ SlaveOK(Reads(x, q))
      /\ Reads(x, q \o all) = Reads(Reads(x, q), all)
  BY <1>1, ReadsJoined
<1>3. Reads(x, q) \in SlaveStates
  BY <1>2 DEF SlaveOK
<1>4. CaughtUp(v, Reads(Reads(x, q), all))
  BY <1>1, <1>2, <1>3 DEF Advances
<1>5. QED
  BY <1>2, <1>4 DEF Completes

LEMMA CompletesNext ==
  ASSUME NEW w, NEW x, SlaveOK(x), NEW q, Completes(w, x, q), q # <<>>
  PROVE  Head(q) \in Cells /\ Completes(w, Read(x, Head(q)), Tail(q))
<1> DEFINE one == <<Head(q)>>
           r == Tail(q)
<1>1. q \in Seq(Cells) /\ CaughtUp(w, Reads(x, q))
  BY DEF Completes
<1>2. Head(q) \in Cells /\ r \in Seq(Cells)
  BY <1>1, TailFacts
<1>3. one \in Seq(Cells) /\ q = one \o r
  BY <1>1, <1>2, HeadTailProperties, ConcatProperties
<1>4. Reads(x, one) = Read(x, Head(q))
  BY <1>2, ReadsOne
<1> HIDE DEF one, r
<1>5. Reads(x, q) = Reads(Read(x, Head(q)), r)
  BY <1>2, <1>3, <1>4, ReadsJoined
<1>6. QED
  BY <1>1, <1>2, <1>5 DEF Completes, r

\* SELECTs alone do nothing to the dataset.
LEMMA SelectsOnly ==
  ASSUME NEW x, SlaveOK(x), ~x.half, NEW q \in Seq(Cells),
         \A i \in 1..Len(q) : q[i].kind = "select"
  PROVE  LET y == Reads(x, q)
         IN /\ y.data = x.data /\ ~y.half
            /\ y.db = IF q = <<>> THEN x.db ELSE q[Len(q)].db
<1> DEFINE n == Len(q)
<1>1. n \in Nat /\ \A i \in 1..n : q[i] \in Cells
  BY LenProperties, ElementOfSeq
<1>2. PICK f : Path(x, q, f)
  BY PathExists
<1>3. Reads(x, q) = f[n]
  BY <1>2, PathReads
<1>4. /\ f[0] = x /\ \A i \in 1..n : f[i] = Read(f[i - 1], q[i])
      /\ \A i \in 0..n : SlaveOK(f[i])
  BY <1>2 DEF Path
<1>5. \A i \in 1..n : q[i].kind = "select"
  OBVIOUS
<1>6. q = <<>> <=> n = 0
  BY EmptySeq
<1> HIDE DEF n
<1>7. ASSUME NEW i \in 1..n
      PROVE  /\ ~f[i].half /\ f[i].db = q[i].db
             /\ f[i].data = f[i - 1].data
  <2>1. i - 1 \in 0..n
    BY <1>1
  <2>2. SlaveOK(f[i - 1]) /\ q[i] \in Cells /\ f[i] = Read(f[i - 1], q[i])
    BY <1>1, <1>4, <2>1
  <2>3. q[i].kind = "select"
    BY <1>5
  <2> DEFINE z == f[i - 1]
             b == q[i]
  <2>4. SlaveOK(z) /\ b \in Cells /\ b.kind = "select" /\ f[i] = Read(z, b)
    BY <2>2, <2>3
  <2> HIDE DEF z, b
  <2> DEFINE y == Read(z, b)
  <2>5. /\ y.half <=> b.kind = "head"
        /\ y.db = IF b.kind = "select" THEN b.db ELSE z.db
        /\ y.data = IF b.kind = "tail" /\ z.half
                    THEN Append(z.data, [id |-> b.id, db |-> z.db]) ELSE z.data
    BY <2>4, ReadFacts, ZenonT(40)
  <2>6. f[i] = y
    BY <2>4
  <2> HIDE DEF y
  <2>7. QED
    BY <2>4, <2>5, <2>6 DEF z, b
<1> DEFINE T == {k \in Nat : k <= n => f[k].data = x.data}
<1>8. 0 \in T
  BY <1>4
<1>9. ASSUME NEW k \in Nat, k \in T PROVE k + 1 \in T
  <2>1. SUFFICES ASSUME k + 1 <= n PROVE f[k + 1].data = x.data
    OBVIOUS
  <2>2. k + 1 \in 1..n /\ (k + 1) - 1 = k /\ k <= n
    BY <1>1, <2>1
  <2>3. QED
    BY <1>7, <1>9, <2>2
<1>10. Nat \subseteq T
  <2> HIDE DEF T
  <2>1. QED
    BY <1>8, <1>9, InductiveSet
<1>11. f[n].data = x.data
  BY <1>1, <1>10
<1>12. CASE n = 0
  BY <1>3, <1>4, <1>6, <1>12
<1>13. CASE n # 0
  <2>1. n \in 1..n
    BY <1>1, <1>13
  <2>2. QED
    BY <1>3, <1>6, <1>7, <1>11, <1>13, <2>1 DEF n
<1>14. QED
  BY <1>12, <1>13

LEMMA WaitsComing ==
  ASSUME NEW w, NEW buf, Waits(w, buf)
  PROVE  Coming(w, w.data, buf)
<1>1. ASSUME NEW x \in SlaveStates, Loaded(x, w.data) PROVE Completes(w, x, buf)
  <2>1. SlaveOK(x) /\ ~x.half /\ x.data = w.data
    BY <1>1 DEF Loaded
  <2>2. buf \in Seq(Cells) /\ \A i \in 1..Len(buf) : buf[i].kind = "select"
    BY DEF Waits
  <2> DEFINE y == Reads(x, buf)
  <2>3. y.data = w.data /\ ~y.half /\ buf # <<>> => y.db = buf[Len(buf)].db
    BY <2>1, <2>2, SelectsOnly
  <2> HIDE DEF y
  <2>4. w.sel \in {NoDb, y.db}
    <3>1. CASE w.sel = NoDb
      BY <3>1
    <3>2. CASE w.sel # NoDb
      <4>1. buf # <<>> /\ w.sel = buf[Len(buf)].db
        BY <3>2 DEF Waits
      <4>2. QED
        BY <1>1, <2>1, <2>2, <4>1, SelectsOnly DEF y
    <3>3. QED
      BY <3>1, <3>2
  <2>5. y.data = w.data /\ ~y.half
    BY <2>1, <2>2, SelectsOnly DEF y
  <2>6. QED
    BY <2>2, <2>4, <2>5 DEF Completes, CaughtUp, y
<1>2. QED
  BY <1>1 DEF Coming

\* Who stands at an offset and reads the stream to its end has caught up.
LEMMA StandsToEnd ==
  ASSUME NEW w, StreamWell(w), At(w, Len(w.stream)) = w.data,
         NEW x, SlaveOK(x), Stands(w, x),
         NEW q \in Seq(Cells), Follows(w, x.reploff, q), ToTheEnd(w, x.reploff, q)
  PROVE  Completes(w, x, q)
<1> DEFINE n == Len(q)
           o == x.reploff
<1>1. n \in Nat /\ \A i \in 1..n : q[i] \in Cells
  BY LenProperties, ElementOfSeq
<1>2. PICK f : Path(x, q, f)
  BY PathExists
<1>3. Reads(x, q) = f[n]
  BY <1>2, PathReads
<1>4. /\ f[0] = x /\ \A i \in 1..n : f[i] = Read(f[i - 1], q[i])
      /\ \A i \in 0..n : SlaveOK(f[i])
  BY <1>2 DEF Path
<1>5. /\ o \in 1..Len(w.stream) /\ o \in Nat /\ Len(w.stream) \in Nat /\ o + n = Len(w.stream)
      /\ \A k \in 1..n : q[k] = w.stream[o + k] /\ q[k].kind # "void"
  <2>1. o \in 1..Len(w.stream)
    BY DEF Stands
  <2>2. Len(w.stream) \in Nat
    BY StreamFacts
  <2>3. o \in Nat
    BY <2>1, <2>2
  <2>4. QED
    BY <2>1, <2>2, <2>3 DEF Follows, ToTheEnd
<1> DEFINE T == {k \in Nat : k <= n => Stands(w, f[k]) /\ f[k].reploff = o + k}
<1>6. 0 \in T
  BY <1>4, <1>5
<1> HIDE DEF n, o
<1>7. ASSUME NEW k \in Nat, k \in T PROVE k + 1 \in T
  <2>1. SUFFICES ASSUME k + 1 <= n
                 PROVE  Stands(w, f[k + 1]) /\ f[k + 1].reploff = o + (k + 1)
    OBVIOUS
  <2>2. k + 1 \in 1..n /\ (k + 1) - 1 = k /\ k \in 0..n /\ k <= n
    BY <1>1, <2>1
  <2>3. Stands(w, f[k]) /\ f[k].reploff = o + k /\ SlaveOK(f[k])
    BY <1>4, <1>7, <2>2
  <2>4. /\ q[k + 1] \in Cells /\ q[k + 1] = w.stream[(o + k) + 1]
        /\ q[k + 1].kind # "void" /\ o + k < Len(w.stream)
        /\ f[k + 1] = Read(f[k], q[k + 1])
    <3>1. q[k + 1] \in Cells /\ f[k + 1] = Read(f[k], q[k + 1])
      BY <1>1, <1>4, <2>2
    <3>2. o + (k + 1) = (o + k) + 1 /\ o + k < Len(w.stream)
      BY <1>1, <1>5, <2>2
    <3>3. q[k + 1] = w.stream[o + (k + 1)] /\ q[k + 1].kind # "void"
      BY <1>5, <2>2
    <3>4. QED
      BY <3>1, <3>2, <3>3
  <2>5. Stands(w, f[k + 1])
    BY <2>3, <2>4, StandsNext
  <2>6. f[k + 1].reploff = (o + k) + 1
    <3> DEFINE z == f[k]
               b == q[k + 1]
    <3>1. SlaveOK(z) /\ b \in Cells /\ f[k + 1] = Read(z, b) /\ z.reploff = o + k
      BY <2>3, <2>4
    <3> HIDE DEF z, b
    <3> DEFINE y == Read(z, b)
    <3>2. y.reploff = z.reploff + 1
      BY <3>1, ReadFacts
    <3> HIDE DEF y
    <3>3. QED
      BY <3>1, <3>2 DEF y
  <2>7. (o + k) + 1 = o + (k + 1)
    BY <1>5
  <2>8. QED
    BY <2>5, <2>6, <2>7
<1>8. Nat \subseteq T
  <2> HIDE DEF T
  <2>1. QED
    BY <1>6, <1>7, InductiveSet
<1>9. Stands(w, f[n]) /\ f[n].reploff = Len(w.stream)
  BY <1>1, <1>5, <1>8
<1>10. w.stream # <<>> /\ w.stream[Len(w.stream)].kind # "head"
  BY <1>5 DEF StreamWell
<1>11. CaughtUp(w, f[n])
  BY <1>9, <1>10 DEF Stands, Unselected, StreamWell, CaughtUp
<1>12. QED
  BY <1>3, <1>11 DEF Completes

-----------------------------------------------------------------------------
\* The dataset is the same, and who has its database selected still has.
Later(w, v) == v.data = w.data /\ v.sel \in {w.sel, NoDb}

LEMMA LaterCompletes ==
  ASSUME NEW w, NEW v, Later(w, v)
  PROVE  /\ \A x, q : Completes(w, x, q) => Completes(v, x, q)
         /\ \A data, q : Coming(w, data, q) => Coming(v, data, q)
         /\ \A q : Delivered(w, q) => Delivered(v, q)
         /\ \A buf : Waits(w, buf) => Waits(v, buf)
<1>1. ASSUME NEW x, NEW q, Completes(w, x, q) PROVE Completes(v, x, q)
  BY <1>1 DEF Completes, CaughtUp, Later
<1>2. ASSUME NEW data, NEW q, Coming(w, data, q) PROVE Coming(v, data, q)
  BY <1>1, <1>2 DEF Coming
<1>3. ASSUME NEW q, Delivered(w, q) PROVE Delivered(v, q)
  BY <1>2, <1>3 DEF Delivered
<1>4. ASSUME NEW buf, Waits(w, buf) PROVE Waits(v, buf)
  BY <1>4 DEF Waits, Later
<1>5. QED
  BY <1>1, <1>2, <1>3, <1>4

\* A client that is answered as before, closed, or a step nearer to its dataset.
Unsent(cl) == cl.state \in {"start", "end", "bulk"}
Nearer(cl, cl2) == \/ cl2.state \in {cl.state, "none"}
                   \/ Unsent(cl) /\ Unsent(cl2)
LEMMA LaterComes ==
  ASSUME NEW w, NEW v, Later(w, v), NEW x, NEW q, NEW cl, SlaveComes(w, x, q, cl),
         NEW cl2, Nearer(cl, cl2)
  PROVE  SlaveComes(v, x, q, cl2)
<1>1. CASE cl2.state = "none"
  BY <1>1 DEF SlaveComes
<1>2. CASE Unsent(cl) /\ Unsent(cl2)
  BY <1>2 DEF SlaveComes, Unsent
<1>3. CASE cl2.state = cl.state
  <2>1. Unsent(cl2) => OnlyAnswer(x, q)
    BY <1>3 DEF SlaveComes, Unsent
  <2>2. cl2.state = "online" =>
          /\ x.state = "connected" /\ x.origin # "resumed" => Completes(v, x, q)
          /\ x.state = "psync" /\ Head(q).kind = "continue" /\ x.origin = "own"
               => Completes(v, Resurrect(x), Tail(q))
          /\ x.state = "psync" /\ Head(q).kind = "fullresync" => Delivered(v, Tail(q))
          /\ x.state = "transfer" => Delivered(v, q)
    BY <1>3, LaterCompletes DEF SlaveComes
  <2>3. QED
    BY <2>1, <2>2 DEF SlaveComes, Unsent
<1>4. QED
  BY <1>1, <1>2, <1>3 DEF Nearer

LEMMA LaterSame ==
  ASSUME NEW w, NEW v, Later(w, v), NEW x, NEW q, NEW cl, SlaveComes(w, x, q, cl)
  PROVE  SlaveComes(v, x, q, cl)
BY LaterCompletes DEF SlaveComes

LEMMA LaterClient ==
  ASSUME NEW w, NEW v, Later(w, v), NEW cl, ClientComes(w, cl),
         cl.state = "end" => v.child = w.child
  PROVE  ClientComes(v, cl)
BY LaterCompletes DEF ClientComes

LEMMA ClosedComes ==
  ASSUME NEW w, NEW cl, cl.state = "none"
  PROVE  ClientComes(w, cl) /\ \A x, q : SlaveComes(w, x, q, cl)
BY DEF ClientComes, SlaveComes

-----------------------------------------------------------------------------
\* What is fed reaches the slaves behind what is on its way.
LEMMA FedComing ==
  ASSUME NEW w, NEW v, NEW all \in Seq(Cells), Advances(w, v, all)
  PROVE  /\ \A data, q : Coming(w, data, q) => Coming(v, data, q \o all)
         /\ \A q \in Seq(Items) : Delivered(w, q) => Delivered(v, q \o all)
<1>1. ASSUME NEW data, NEW q, Coming(w, data, q) PROVE Coming(v, data, q \o all)
  <2>1. ASSUME NEW x \in SlaveStates, Loaded(x, data) PROVE Completes(v, x, q \o all)
    <3>1. Completes(w, x, q) /\ SlaveOK(x)
      BY <1>1, <2>1 DEF Coming, Loaded
    <3>2. QED
      BY <3>1, CompletesMore
  <2>2. QED
    BY <2>1 DEF Coming
<1>2. ASSUME NEW q \in Seq(Items), Delivered(w, q) PROVE Delivered(v, q \o all)
  <2>1. all \in Seq(Items) /\ q # <<>>
    BY <1>2, CellsAreItems DEF Delivered
  <2>2. q \o all # <<>> /\ Head(q \o all) = Head(q) /\ Tail(q \o all) = Tail(q) \o all
    BY <2>1, HeadOfTwo
  <2>3. Coming(v, Head(q).data, Tail(q) \o all)
    BY <1>1, <1>2 DEF Delivered
  <2>4. QED
    BY <1>2, <2>2, <2>3 DEF Delivered
<1>3. QED
  BY <1>1, <1>2

LEMMA ResurrectOK ==
  ASSUME NEW x, SlaveOK(x), x.state = "psync"
  PROVE  LET y == Resurrect(x)
         IN /\ SlaveOK(y) /\ y.state = "connected" /\ y.conn = x.conn /\ y.data = x.data
            /\ y.db = x.db /\ y.half = x.half /\ y.reploff = x.reploff
            /\ y.origin = IF x.origin = "own" THEN "own" ELSE "resumed"
<1> DEFINE y == Resurrect(x)
           o == IF x.origin = "own" THEN "own" ELSE "resumed"
<1>1. x \in SlaveStates /\ x.conn # NoConn
  BY DEF SlaveOK
<1>2. y = [x EXCEPT !.state = "connected", !.origin = o]
  BY DEF Resurrect
<1>3. o \in {"own", "resumed"}
  OBVIOUS
<1> HIDE DEF o, y
<1>4. y \in SlaveStates
  BY <1>1, <1>2, <1>3 DEF SlaveStates
<1>5. /\ y.state = "connected" /\ y.conn = x.conn /\ y.data = x.data
      /\ y.db = x.db /\ y.half = x.half /\ y.reploff = x.reploff /\ y.origin = o
  BY <1>1, <1>2 DEF SlaveStates
<1>6. SlaveOK(y)
  BY <1>1, <1>4, <1>5 DEF SlaveOK
<1>7. QED
  BY <1>5, <1>6 DEF y, o

LEMMA SlaveFed ==
  ASSUME NEW w, NEW v, NEW all \in Seq(Cells), Advances(w, v, all),
         NEW x, SlaveOK(x), NEW q \in Seq(Items), x.state = "psync" => q # <<>>,
         NEW cl, SlaveComes(w, x, q, cl), NEW cl2, cl2.state = cl.state,
         NEW q2, q2 = IF cl.state = "online" THEN q \o all ELSE q
  PROVE  SlaveComes(v, x, q2, cl2)
<1>1. CASE cl.state = "online"
  <2>1. \A r \in Seq(Items) : Delivered(w, r) => Delivered(v, r \o all)
    BY FedComing
  <2>2. q2 = q \o all /\ all \in Seq(Items)
    BY <1>1, CellsAreItems
  <2>3. ASSUME x.state = "connected", x.origin # "resumed" PROVE Completes(v, x, q2)
    <3>1. Completes(w, x, q)
      BY <1>1, <2>3 DEF SlaveComes
    <3>2. QED
      BY <2>2, <3>1, CompletesMore
  <2>4. ASSUME x.state = "psync"
        PROVE  Head(q2) = Head(q) /\ Tail(q2) = Tail(q) \o all
               /\ Tail(q) \in Seq(Items)
    BY <2>2, <2>4, HeadOfTwo, TailFacts
  <2>5. ASSUME x.state = "psync", Head(q2).kind = "continue", x.origin = "own"
        PROVE  Completes(v, Resurrect(x), Tail(q2))
    <3>1. Completes(w, Resurrect(x), Tail(q)) /\ SlaveOK(Resurrect(x))
      BY <1>1, <2>4, <2>5, ResurrectOK DEF SlaveComes
    <3>2. QED
      BY <2>4, <2>5, <3>1, CompletesMore
  <2>6. ASSUME x.state = "psync", Head(q2).kind = "fullresync"
        PROVE  Delivered(v, Tail(q2))
    <3>1. Delivered(w, Tail(q))
      BY <1>1, <2>4, <2>6 DEF SlaveComes
    <3>2. QED
      BY <2>1, <2>4, <2>6, <3>1
  <2>7. ASSUME x.state = "transfer" PROVE Delivered(v, q2)
    <3>1. Delivered(w, q)
      BY <1>1, <2>7 DEF SlaveComes
    <3>2. QED
      BY <2>1, <2>2, <3>1
  <2>8. QED
    BY <1>1, <2>3, <2>5, <2>6, <2>7 DEF SlaveComes
<1>2. CASE cl.state # "online"
  BY <1>2 DEF SlaveComes
<1>3. QED
  BY <1>1, <1>2

LEMMA WaitsFed ==
  ASSUME NEW w, NEW v, NEW buf, Waits(w, buf), NEW sel,
         \/ sel = <<>> /\ v.sel = w.sel
         \/ \E b \in Cells : sel = <<b>> /\ b.kind = "select" /\ v.sel = b.db
  PROVE  Waits(v, buf \o sel)
<1>1. buf \in Seq(Cells) /\ \A i \in 1..Len(buf) : buf[i].kind = "select"
  BY DEF Waits
<1>2. CASE sel = <<>> /\ v.sel = w.sel
  <2>1. buf \o sel = buf
    BY <1>1, <1>2, ConcatEmptySeq
  <2>2. QED
    BY <1>2, <2>1 DEF Waits
<1>3. ASSUME NEW b \in Cells, sel = <<b>>, b.kind = "select", v.sel = b.db
      PROVE  Waits(v, buf \o sel)
  <2> DEFINE r == Append(buf, b)
  <2>1. buf \o sel = r
    BY <1>1, <1>3, AppendIsConcat
  <2>2. /\ r \in Seq(Cells) /\ Len(buf) \in Nat /\ Len(r) = Len(buf) + 1
        /\ \A i \in 1..Len(buf) : r[i] = buf[i]
        /\ r[Len(buf) + 1] = b
    BY <1>1, AppendFacts
  <2> HIDE DEF r
  <2>3. r # <<>>
    BY <2>2
  <2>4. ASSUME NEW i \in 1..Len(r) PROVE r[i].kind = "select"
    <3>1. i \in 1..Len(buf) \/ i = Len(buf) + 1
      BY <2>2
    <3>2. QED
      BY <1>1, <1>3, <2>2, <3>1
  <2>5. r[Len(r)] = b
    BY <2>2
  <2>6. Waits(v, r)
    BY <1>3, <2>2, <2>3, <2>4, <2>5 DEF Waits
  <2>7. QED
    BY <2>1, <2>6
<1>4. QED
  BY <1>2, <1>3

-----------------------------------------------------------------------------
\* What a step feeds.
SelectFirst(db) ==
  IF slaveseldb = db THEN <<>> ELSE <<Cell("select", db, 0, Len(mdata))>>
AllFed(db, cells) == SelectFirst(db) \o cells

\* The clients and the slaves when the master feeds them.
LEMMA FeedArrives ==
  ASSUME IInv, Offsets, Arrives, slave' = slave, child' = child,
         NEW db, NEW cells, FeedSlaves(db, cells), ~(backlog = NoBacklog /\ Attached = {}),
         slaveseldb = db \/ Cell("select", db, 0, Len(mdata)) \in Cells,
         AllFed(db, cells) \in Seq(Cells), Advances(Now, Now', AllFed(db, cells))
  PROVE  Arrives'
<1> DEFINE sel == SelectFirst(db)
           all == AllFed(db, cells)
           For(state) == IF state = "start" THEN sel ELSE all
<1>1. /\ slaveseldb' = db
      /\ client' = [d \in Conns |->
           IF client[d].state \in {"none", "online"} THEN client[d]
           ELSE [client[d] EXCEPT !.buf = @ \o For(client[d].state)]]
      /\ wire' = [d \in Conns |->
           IF client[d].state = "online" THEN wire[d] \o all ELSE wire[d]]
  BY DEF FeedSlaves, AllFed, SelectFirst
<1>2. all \in Seq(Cells) /\ Advances(Now, Now', all)
  OBVIOUS
<1> HIDE DEF sel, all
<1>3. Now'.sel = db /\ Now.sel = slaveseldb /\ Now'.child = Now.child
  BY <1>1, NowFacts
<1> HIDE DEF For
<1>4. ASSUME NEW c \in Conns
      PROVE  client'[c].state = client[c].state /\ ClientComes(Now', client'[c])
  <2> DEFINE cl == client[c]
             cl2 == client'[c]
  <2>1. cl \in Clients /\ ClientComes(Now, cl)
    BY DEF IInv, ClientOK, Arrives
  <2>2. cl2 = IF cl.state \in {"none", "online"} THEN cl
              ELSE [cl EXCEPT !.buf = @ \o For(cl.state)]
    BY <1>1
  <2> HIDE DEF cl, cl2
  <2>3. CASE cl.state \in {"none", "online"}
    BY <2>2, <2>3 DEF ClientComes, cl, cl2
  <2>4. CASE cl.state \notin {"none", "online"}
    <3>1. cl2.state = cl.state /\ cl2.buf = cl.buf \o For(cl.state) /\ cl2.rdb = cl.rdb
      BY <2>1, <2>2, <2>4 DEF Clients
    <3>2. ASSUME cl.state = "start" PROVE Waits(Now', cl2.buf)
      <4>1. Waits(Now, cl.buf) /\ cl2.buf = cl.buf \o sel
        BY <2>1, <3>1, <3>2 DEF ClientComes, For
      <4>2. CASE slaveseldb = db
        <5>1. sel = <<>> /\ Now'.sel = Now.sel
          BY <1>3, <4>2 DEF sel, SelectFirst
        <5>2. QED
          BY <4>1, <5>1, WaitsFed
      <4>3. CASE slaveseldb # db
        <5> DEFINE b == Cell("select", db, 0, Len(mdata))
        <5>1. sel = <<b>> /\ b.kind = "select" /\ b.db = db
          BY <4>3 DEF Cell, sel, SelectFirst
        <5>2. b \in Cells
          BY <4>3
        <5> HIDE DEF b
        <5>3. QED
          BY <1>3, <4>1, <5>1, <5>2, WaitsFed
      <4>4. QED
        BY <4>2, <4>3
    <3>3. ASSUME cl.state = "end" PROVE Coming(Now', Now'.child, cl2.buf)
      <4>1. Coming(Now, Now.child, cl.buf) /\ cl2.buf = cl.buf \o all
        BY <2>1, <3>1, <3>3 DEF ClientComes, For
      <4>2. QED
        BY <1>2, <1>3, <4>1, FedComing
    <3>4. ASSUME cl.state = "bulk" PROVE Coming(Now', cl2.rdb, cl2.buf)
      <4>1. Coming(Now, cl.rdb, cl.buf) /\ cl2.buf = cl.buf \o all
        BY <2>1, <3>1, <3>4 DEF ClientComes, For
      <4>2. QED
        BY <1>2, <3>1, <4>1, FedComing
    <3>5. cl.state = "end" => Now'.child # NoChild
      BY <1>3, <2>1 DEF ClientComes
    <3>6. ClientComes(Now', cl2)
      BY <3>1, <3>2, <3>3, <3>4, <3>5 DEF ClientComes
    <3>7. QED
      BY <3>1, <3>6 DEF cl, cl2
  <2>5. QED
    BY <2>3, <2>4
<1>5. ASSUME NEW s \in Slaves, NEW c, c = slave[s].conn, c \in Conns
      PROVE  SlaveComes(Now', slave[s], wire'[c], client'[c])
  <2>1. /\ SlaveOK(slave[s]) /\ wire[c] \in Seq(Items)
        /\ SlaveComes(Now, slave[s], wire[c], client[c])
    BY <1>5 DEF IInv, SlavesOK, WireOK, Arrives
  <2>2. slave[s].state = "psync" => wire[c] # <<>>
    BY <1>5 DEF Offsets, WellAt, SlaveWell, WireAt
  <2>3. /\ client'[c].state = client[c].state
        /\ wire'[c] = IF client[c].state = "online" THEN wire[c] \o all ELSE wire[c]
    BY <1>1, <1>4, <1>5
  <2> DEFINE x == slave[s]
             q == wire[c]
             cl == client[c]
             q2 == wire'[c]
             cl2 == client'[c]
  <2>4. /\ SlaveOK(x) /\ q \in Seq(Items) /\ (x.state = "psync" => q # <<>>)
        /\ SlaveComes(Now, x, q, cl) /\ cl2.state = cl.state
        /\ q2 = IF cl.state = "online" THEN q \o all ELSE q
    BY <2>1, <2>2, <2>3
  <2> HIDE DEF x, q, cl, q2, cl2
  <2>5. SlaveComes(Now', x, q2, cl2)
    BY <1>2, <2>4, SlaveFed
  <2>6. QED
    BY <2>5 DEF x, q2, cl2
<1>6. QED
  BY <1>4, <1>5 DEF Arrives

\* While the master has no clients nothing is to arrive.
LEMMA NobodyArrives ==
  ASSUME \A c \in Conns : client'[c].state = "none"
  PROVE  Arrives'
BY ClosedComes DEF Arrives

LEMMA ReadsTwo ==
  ASSUME NEW y, SlaveOK(y), NEW sel \in Seq(Cells), NEW h \in Cells, NEW t \in Cells
  PROVE  /\ sel \o <<h, t>> \in Seq(Cells)
         /\ Reads(y, sel \o <<h, t>>) = Read(Read(Reads(y, sel), h), t)
<1> DEFINE one == <<h>>
           other == <<t>>
           two == <<h, t>>
           z == Reads(y, sel)
           u == Read(z, h)
<1>1. one \in Seq(Cells) /\ other \in Seq(Cells)
  OBVIOUS
<1>2. two \in Seq(Cells)
  OBVIOUS
<1>3. two = one \o other
  <2>1. two = Append(one, t)
    OBVIOUS
  <2>2. QED
    BY <1>1, <2>1, AppendIsConcat DEF other
<1>4. /\ \A x : SlaveOK(x) => Reads(x, one) = Read(x, h)
      /\ \A x : SlaveOK(x) => Reads(x, other) = Read(x, t)
  BY ReadsOne
<1> HIDE DEF one, other, two
<1>5. SlaveOK(z) /\ Reads(y, sel \o two) = Reads(z, two) /\ sel \o two \in Seq(Cells)
  BY <1>2, ReadsJoined
<1> HIDE DEF z
<1>6. Reads(z, one \o other) = Reads(Reads(z, one), other)
  BY <1>1, <1>5, ReadsJoined
<1>7. SlaveOK(u)
  BY <1>5, ReadOK
<1> HIDE DEF u
<1>8. Reads(z, two) = Read(u, t)
  BY <1>4, <1>5, <1>6, <1>7, <1>3 DEF u
<1>9. QED
  BY <1>5, <1>8 DEF u, z, two

LEMMA WriteAdvances ==
  ASSUME IInv, NEW db \in Dbs, mdata' = Append(mdata, [id |-> writes + 1, db |-> db]),
         slaveseldb' = db,
         NEW h \in Cells, h.kind = "head", NEW t \in Cells, t.kind = "tail",
         t.id = writes + 1, Cell("select", db, 0, Len(mdata)) \in Cells
  PROVE  /\ AllFed(db, <<h, t>>) \in Seq(Cells)
         /\ Advances(Now, Now', AllFed(db, <<h, t>>))
<1> DEFINE b == Cell("select", db, 0, Len(mdata))
           r == [id |-> writes + 1, db |-> db]
           sel == SelectFirst(db)
           all == AllFed(db, <<h, t>>)
<1>1. db # NoDb
  BY ReplicationConstants DEF NoDb
<1>2. b \in Cells /\ b.kind = "select" /\ b.db = db
  BY DEF Cell
<1> HIDE DEF b
<1>3. sel \in Seq(Cells) /\ sel = IF slaveseldb = db THEN <<>> ELSE <<b>>
  BY <1>2, EmptySeq DEF b, SelectFirst
<1>4. sel \in Seq(Cells)
  BY <1>3
<1> HIDE DEF sel
<1>5. all \in Seq(Cells) /\ \A y : SlaveOK(y) => Reads(y, all) = Read(Read(Reads(y, sel), h), t)
  BY <1>4, ReadsTwo DEF AllFed, sel
<1> HIDE DEF all
<1>6. /\ Now.data = mdata /\ Now.sel = slaveseldb /\ Now'.data = Append(mdata, r)
      /\ Now'.sel = db
  BY NowFacts
<1> HIDE DEF r
<1>7. ASSUME NEW y \in SlaveStates, SlaveOK(y), CaughtUp(Now, y)
      PROVE  CaughtUp(Now', Reads(y, all))
  <2> DEFINE z == Reads(y, sel)
  <2>1. y.data = mdata /\ ~y.half /\ slaveseldb \in {NoDb, y.db}
    BY <1>6, <1>7 DEF CaughtUp
  <2>2. SlaveOK(z) /\ z.data = mdata /\ ~z.half /\ z.db = db
    <3>1. CASE slaveseldb = db
      <4>1. z = y
        BY <1>3, <1>7, <3>1, ReadsNone
      <4> HIDE DEF z
      <4>2. QED
        BY <1>1, <1>7, <2>1, <3>1, <4>1
    <3>2. CASE slaveseldb # db
      <4> DEFINE u == Read(y, b)
      <4>1. z = u
        BY <1>2, <1>3, <1>7, <3>2, ReadsOne
      <4>2. SlaveOK(u)
        BY <1>2, <1>7, ReadOK
      <4>3. SlaveOK(y) /\ b \in Cells
        BY <1>2, <1>7
      <4>4. /\ u.half <=> b.kind = "head"
            /\ u.db = IF b.kind = "select" THEN b.db ELSE y.db
            /\ u.data = IF b.kind = "tail" /\ y.half
                        THEN Append(y.data, [id |-> b.id, db |-> y.db]) ELSE y.data
        BY <4>3, ReadFacts
      <4> HIDE DEF u, z
      <4>5. QED
        BY <1>2, <2>1, <4>1, <4>2, <4>4
    <3>3. QED
      BY <3>1, <3>2
  <2>3. Reads(y, all) = Read(Read(z, h), t)
    BY <1>7, <1>5
  <2> HIDE DEF z
  <2> DEFINE u == Read(z, h)
             v == Read(u, t)
  <2>4. SlaveOK(z) /\ h \in Cells
    BY <1>2, <2>2
  <2>5. /\ u.half <=> h.kind = "head"
        /\ u.db = IF h.kind = "select" THEN h.db ELSE z.db
        /\ u.data = IF h.kind = "tail" /\ z.half
                    THEN Append(z.data, [id |-> h.id, db |-> z.db]) ELSE z.data
    BY <2>4, ReadFacts
  <2>6. Reads(y, all) = v
    BY <2>3
  <2> HIDE DEF u
  <2>7. u.half /\ u.db = db /\ u.data = mdata /\ SlaveOK(u)
    <3>1. SlaveOK(u)
      BY <1>2, <2>2, ReadOK DEF u
    <3>2. QED
      BY <1>2, <2>2, <2>5, <3>1
  <2>8. SlaveOK(u) /\ t \in Cells
    BY <1>2, <2>7
  <2>9. /\ v.half <=> t.kind = "head"
        /\ v.db = IF t.kind = "select" THEN t.db ELSE u.db
        /\ v.data = IF t.kind = "tail" /\ u.half
                    THEN Append(u.data, [id |-> t.id, db |-> u.db]) ELSE u.data
    BY <2>8, ReadFacts
  <2> HIDE DEF v
  <2>10. v.data = Append(mdata, r) /\ ~v.half /\ v.db = db
    BY <1>2, <2>7, <2>9 DEF r
  <2>11. QED
    BY <1>6, <2>6, <2>10 DEF CaughtUp
<1>8. QED
  BY <1>7, <1>5 DEF Advances, all

LEMMA WriteArrives ==
  ASSUME IInv, Offsets, Arrives, NEW db \in Dbs, Write(db)
  PROVE  Arrives'
<1> DEFINE b == Cell("select", db, 0, Len(mdata))
           h == Cell("head", db, writes + 1, Len(mdata))
           t == Cell("tail", db, writes + 1, Len(mdata) + 1)
           cells == <<h, t>>
<1>1. /\ FeedSlaves(db, cells) /\ mdata' = Append(mdata, [id |-> writes + 1, db |-> db])
      /\ UNCHANGED <<child, slave>>
  BY DEF Write
<1>2. CASE backlog = NoBacklog /\ Attached = {}
  <2>1. client' = client
    BY <1>1, <1>2 DEF FeedSlaves
  <2>2. QED
    BY <1>2, <2>1, NobodyArrives DEF Attached
<1>3. CASE ~(backlog = NoBacklog /\ Attached = {})
  <2>1. slaveseldb' = db
    BY <1>1, <1>3 DEF FeedSlaves
  <2>2. Len(mdata) \in Nat /\ writes \in Nat
    BY DataLength DEF IInv, StreamOK
  <2>3. /\ b \in Cells /\ h \in Cells /\ h.kind = "head"
        /\ t \in Cells /\ t.kind = "tail" /\ t.id = writes + 1
    BY <2>2 DEF Cell, Cells
  <2> HIDE DEF h, t
  <2>4. AllFed(db, cells) \in Seq(Cells) /\ Advances(Now, Now', AllFed(db, cells))
    BY <1>1, <2>1, <2>3, WriteAdvances
  <2> HIDE DEF cells
  <2>5. QED
    BY <1>1, <1>3, <2>3, <2>4, FeedArrives
<1>4. QED
  BY <1>2, <1>3

LEMMA PingArrives ==
  ASSUME IInv, Offsets, Arrives, Ping
  PROVE  Arrives'
<1> DEFINE db == slaveseldb
           b == Cell("ping", db, 0, Len(mdata))
           cells == <<b>>
           all == AllFed(db, cells)
<1>1. FeedSlaves(db, cells) /\ UNCHANGED <<mdata, child, slave>>
  BY DEF Ping
<1>2. b \in Cells /\ b.kind = "ping"
  <2>1. Len(mdata) \in Nat /\ db \in Dbs \cup {NoDb}
    BY DataLength DEF IInv, StreamOK
  <2>2. QED
    BY <2>1 DEF Cell, Cells
<1> HIDE DEF b
<1>3. cells \in Seq(Cells) /\ all = cells
  BY <1>2, ConcatEmptySeq DEF AllFed, SelectFirst
<1>4. CASE backlog = NoBacklog /\ Attached = {}
  <2>1. client' = client
    BY <1>1, <1>4 DEF FeedSlaves
  <2>2. QED
    BY <1>4, <2>1, NobodyArrives DEF Attached
<1>5. CASE ~(backlog = NoBacklog /\ Attached = {})
  <2>1. slaveseldb' = slaveseldb
    BY <1>1, <1>5 DEF FeedSlaves
  <2>2. Now.data = mdata /\ Now.sel = slaveseldb /\ Now'.data = mdata /\ Now'.sel = slaveseldb
    BY <1>1, <2>1, NowFacts
  <2>3. ASSUME NEW y \in SlaveStates, SlaveOK(y), CaughtUp(Now, y)
        PROVE  CaughtUp(Now', Reads(y, cells))
    <3> DEFINE u == Read(y, b)
    <3>1. Reads(y, cells) = u
      BY <1>2, <2>3, ReadsOne
    <3>2. /\ u.half <=> b.kind = "head"
          /\ u.db = IF b.kind = "select" THEN b.db ELSE y.db
          /\ u.data = IF b.kind = "tail" /\ y.half
                      THEN Append(y.data, [id |-> b.id, db |-> y.db]) ELSE y.data
      BY <1>2, <2>3, ReadFacts
    <3> HIDE DEF u
    <3>3. u.data = mdata /\ ~u.half /\ slaveseldb \in {NoDb, u.db}
      BY <1>2, <2>2, <2>3, <3>2 DEF CaughtUp
    <3>4. QED
      BY <2>2, <3>1, <3>3 DEF CaughtUp
  <2> HIDE DEF cells, all
  <2>4. all \in Seq(Cells) /\ Advances(Now, Now', all)
    BY <1>3, <2>3 DEF Advances
  <2>5. QED
    BY <1>1, <1>5, <2>4, FeedArrives DEF all
<1>6. QED
  BY <1>4, <1>5

-----------------------------------------------------------------------------
\* A step that is about one connection.
LEMMA ArrivesFrom ==
  ASSUME Arrives, Later(Now, Now'), NEW d,
         \A c \in Conns : c # d =>
           /\ client'[c] = client[c] /\ wire'[c] = wire[c]
           /\ client[c].state = "end" => Now'.child = Now.child,
         d \in Conns => ClientComes(Now', client'[d]),
         \A s \in Slaves : slave'[s].conn \in Conns =>
           \/ slave'[s].conn # d /\ slave'[s] = slave[s]
           \/ slave'[s].conn = d /\ SlaveComes(Now', slave'[s], wire'[d], client'[d])
  PROVE  Arrives'
<1>1. ASSUME NEW c \in Conns PROVE ClientComes(Now', client'[c])
  <2>1. CASE c = d
    BY <2>1
  <2>2. CASE c # d
    <3>1. ClientComes(Now, client[c])
      BY DEF Arrives
    <3>2. ClientComes(Now', client[c])
      BY <2>2, <3>1, LaterClient
    <3>3. QED
      BY <2>2, <3>2
  <2>3. QED
    BY <2>1, <2>2
<1>2. ASSUME NEW s \in Slaves, NEW c, c = slave'[s].conn, c \in Conns
      PROVE  SlaveComes(Now', slave'[s], wire'[c], client'[c])
  <2>1. CASE c = d
    BY <1>2, <2>1
  <2>2. CASE c # d
    <3>1. /\ slave'[s] = slave[s] /\ client'[c] = client[c] /\ wire'[c] = wire[c]
      BY <1>2, <2>2
    <3>2. SlaveComes(Now, slave[s], wire[c], client[c])
      BY <1>2, <3>1 DEF Arrives
    <3>3. SlaveComes(Now', slave[s], wire[c], client[c])
      BY <3>2, LaterSame
    <3>4. QED
      BY <3>1, <3>3
  <2>3. QED
    BY <2>1, <2>2
<1>3. QED
  BY <1>1, <1>2 DEF Arrives

LEMMA NoneEnds ==
  ASSUME Arrives, child = NoChild
  PROVE  \A c \in Conns : client[c].state # "end"
  BY NowFacts DEF Arrives, ClientComes

LEMMA QuietArrives ==
  ASSUME Arrives, UNCHANGED <<mdata, slaveseldb, client, wire, slave>>,
         child' = child \/ child = NoChild
  PROVE  Arrives'
<1>1. Later(Now, Now')
  BY NowFacts DEF Later
<1>2. \A c \in Conns : client[c].state = "end" => Now'.child = Now.child
  BY NoneEnds, NowFacts
<1>3. NoConn \notin Conns
  BY ReplicationConstants
<1>4. \A s \in Slaves : slave'[s].conn \in Conns =>
           slave'[s].conn # NoConn /\ slave'[s] = slave[s]
  BY <1>3
<1>5. QED
  BY <1>1, <1>2, <1>3, <1>4, ArrivesFrom

LEMMA MasterLosesArrives ==
  ASSUME IInv, Arrives, NEW c \in Conns, MasterLoses(c)
  PROVE  Arrives'
<1>1. /\ UNCHANGED <<mdata, slaveseldb, child, wire, slave>>
      /\ client' = [client EXCEPT ![c] = NoClient]
  BY DEF MasterLoses, masterVars
<1>2. Later(Now, Now') /\ Now'.child = Now.child
  BY <1>1, NowFacts DEF Later
<1>3. client'[c] = NoClient /\ NoClient.state = "none"
  BY <1>1 DEF IInv, ClientOK, NoClient
<1>4. \A d \in Conns : d # c => client'[d] = client[d]
  BY <1>1 DEF IInv, ClientOK
<1>5. /\ ClientComes(Now', client'[c])
      /\ \A s \in Slaves : SlaveComes(Now', slave'[s], wire'[c], client'[c])
  BY <1>3, ClosedComes
<1>6. QED
  BY <1>1, <1>2, <1>4, <1>5, ArrivesFrom

LEMMA SlaveLosesArrives ==
  ASSUME IInv, Offsets, Arrives, NEW s \in Slaves, SlaveLoses(s)
  PROVE  Arrives'
<1> DEFINE c == slave[s].conn
           y == CacheMaster(slave[s])
<1>1. /\ UNCHANGED <<mdata, slaveseldb, child, client>> /\ c # NoConn
      /\ slave' = [slave EXCEPT ![s] = y] /\ wire' = [wire EXCEPT ![c] = <<>>]
  BY DEF SlaveLoses, masterVars
<1>2. Later(Now, Now') /\ Now'.child = Now.child
  BY <1>1, NowFacts DEF Later
<1>3. slave'[s] = y /\ \A t \in Slaves : t # s => slave'[t] = slave[t]
  BY <1>1 DEF IInv, SlavesOK
<1>4. y.conn = NoConn /\ NoConn \notin Conns
  <2>1. slave[s] \in SlaveStates
    BY DEF IInv, SlavesOK, SlaveOK
  <2>2. QED
    BY <2>1, ReplicationConstants DEF CacheMaster, SlaveStates
<1>5. \A d \in Conns : d # c => client'[d] = client[d] /\ wire'[d] = wire[d]
  BY <1>1 DEF IInv, WireOK
<1>6. c \in Conns => ClientComes(Now', client'[c])
  <2>1. SUFFICES ASSUME c \in Conns PROVE ClientComes(Now', client[c])
    BY <1>1
  <2>2. ClientComes(Now, client[c])
    BY <2>1 DEF Arrives
  <2>3. QED
    BY <1>2, <2>2, LaterClient
<1>7. \A t \in Slaves : slave'[t].conn \in Conns =>
        slave'[t].conn # c /\ slave'[t] = slave[t]
  BY <1>1, <1>3, <1>4 DEF Offsets, Single
<1> HIDE DEF c, y
<1>8. QED
  BY <1>2, <1>5, <1>6, <1>7, ArrivesFrom

-----------------------------------------------------------------------------
\* The dataset is sent, and what has been kept for after it.
LEMMA SentComes ==
  ASSUME NEW w, NEW x, NEW q \in Seq(Items), NEW cl \in Clients, cl.state = "bulk",
         ClientComes(w, cl), SlaveComes(w, x, q, cl), x.state = "psync" => q # <<>>,
         NEW cl2, cl2.state = "online"
  PROVE  SlaveComes(w, x, q \o (<<Rdb(cl.rdb)>> \o cl.buf), cl2)
<1> DEFINE rdb == Rdb(cl.rdb)
           add == <<rdb>> \o cl.buf
           q2 == q \o add
<1>1. cl.buf \in Seq(Items) /\ cl.rdb \in Datasets
  BY CellsAreItems DEF Clients
<1>2. rdb \in Items /\ rdb.kind = "rdb" /\ rdb.data = cl.rdb
  BY <1>1 DEF Rdb, Items
<1> HIDE DEF rdb
<1>3. add \in Seq(Items) /\ add # <<>> /\ Head(add) = rdb /\ Tail(add) = cl.buf
  BY <1>1, <1>2, PrependFacts
<1> HIDE DEF add
<1>4. Delivered(w, add)
  BY <1>1, <1>2, <1>3 DEF Delivered, ClientComes
<1>5. OnlyAnswer(x, q)
  BY DEF SlaveComes
<1>6. <<>> \o add = add
  BY <1>3, ConcatEmptySeq
<1>7. CASE x.state = "transfer" /\ q = <<>>
  <2>1. q2 = add
    BY <1>6, <1>7
  <2> HIDE DEF q2
  <2>2. SlaveComes(w, x, q2, cl2)
    BY <1>4, <1>7, <2>1 DEF SlaveComes
  <2>3. QED
    BY <2>2 DEF q2, add, rdb
<1>8. CASE x.state = "psync" /\ Head(q).kind = "fullresync" /\ Tail(q) = <<>>
  <2>1. Head(q2) = Head(q) /\ Tail(q2) = Tail(q) \o add
    BY <1>3, <1>8, HeadOfTwo
  <2>2. Tail(q2) = add
    BY <1>6, <1>8, <2>1
  <2> HIDE DEF q2
  <2>3. SlaveComes(w, x, q2, cl2)
    BY <1>4, <1>8, <2>1, <2>2 DEF SlaveComes
  <2>4. QED
    BY <2>3 DEF q2, add, rdb
<1>9. QED
  BY <1>5, <1>7, <1>8 DEF OnlyAnswer

LEMMA SendBulkArrives ==
  ASSUME IInv, Offsets, Arrives, NEW c \in Conns, SendBulk(c)
  PROVE  Arrives'
<1> DEFINE new == [NoClient EXCEPT !.state = "online"]
           add == <<Rdb(client[c].rdb)>> \o client[c].buf
<1>1. /\ UNCHANGED <<mdata, slaveseldb, child, slave>>
      /\ client' = [client EXCEPT ![c] = new]
      /\ wire' = [wire EXCEPT ![c] = (wire[c] \o <<Rdb(client[c].rdb)>>) \o client[c].buf]
      /\ client[c].state = "bulk"
  BY DEF SendBulk, masterVars
<1>2. Later(Now, Now') /\ Now'.child = Now.child
  BY <1>1, NowFacts DEF Later
<1>3. /\ wire[c] \in Seq(Items) /\ client[c] \in Clients /\ ClientComes(Now, client[c])
  BY DEF IInv, WireOK, ClientOK, Arrives
<1>4. (wire[c] \o <<Rdb(client[c].rdb)>>) \o client[c].buf = wire[c] \o add
  <2>1. client[c].rdb \in Datasets /\ client[c].buf \in Seq(Items)
    BY <1>3, CellsAreItems DEF Clients
  <2>2. <<Rdb(client[c].rdb)>> \in Seq(Items)
    BY <2>1 DEF Rdb, Items
  <2>3. \A e, f, g \in Seq(Items) : (e \o f) \o g = e \o (f \o g)
    BY ConcatAssociative
  <2>4. QED
    BY <1>3, <2>1, <2>2, <2>3
<1>5. client'[c] = new /\ wire'[c] = wire[c] \o add
  BY <1>1, <1>4 DEF IInv, ClientOK, WireOK
<1>6. new.state = "online"
  BY DEF NoClient
<1> HIDE DEF new, add
<1>7. \A d \in Conns : d # c => client'[d] = client[d] /\ wire'[d] = wire[d]
  BY <1>1 DEF IInv, ClientOK, WireOK
<1>8. ClientComes(Now', client'[c])
  BY <1>5, <1>6 DEF ClientComes
<1>9. ASSUME NEW s \in Slaves, slave[s].conn = c
      PROVE  SlaveComes(Now', slave[s], wire'[c], client'[c])
  <2> DEFINE x == slave[s]
             q == wire[c]
             cl == client[c]
  <2>1. SlaveComes(Now, x, q, cl) /\ (x.state = "psync" => q # <<>>)
    BY <1>9 DEF Arrives, Offsets, WellAt, SlaveWell, WireAt
  <2>2. q \in Seq(Items) /\ cl \in Clients /\ ClientComes(Now, cl) /\ cl.state = "bulk"
    BY <1>1, <1>3
  <2>3. add = <<Rdb(cl.rdb)>> \o cl.buf
    BY DEF add
  <2> HIDE DEF x, q, cl
  <2>4. SlaveComes(Now, x, q \o (<<Rdb(cl.rdb)>> \o cl.buf), new)
    BY <1>6, <2>1, <2>2, SentComes
  <2>5. SlaveComes(Now', x, q \o add, new)
    BY <1>2, <2>3, <2>4, LaterSame
  <2>6. QED
    BY <1>5, <2>5 DEF x, q
<1>10. QED
  BY <1>1, <1>2, <1>7, <1>8, <1>9, ArrivesFrom

LEMMA RestartArrives ==
  ASSUME Restart
  PROVE  Arrives'
<1>1. \A c \in Conns : client'[c].state = "none"
  BY DEF Restart, NoClient
<1>2. QED
  BY <1>1, NobodyArrives

LEMMA ArrivesInit == Init => Arrives
<1>1. ASSUME Init PROVE \A c \in Conns : client[c].state = "none"
  BY <1>1 DEF Init, NoClient
<1>2. ASSUME \A c \in Conns : client[c].state = "none" PROVE Arrives
  BY <1>2, ClosedComes DEF Arrives
<1>3. QED
  BY <1>1, <1>2

-----------------------------------------------------------------------------
\* The BGSAVE has ended, well or not.
LEMMA DoneComes ==
  ASSUME NEW w, NEW v, Later(w, v), NEW cl \in Clients, ClientComes(w, cl), NEW cl2,
         cl.state = "start" =>
           /\ cl2.state = "end" /\ cl2.buf = cl.buf
           /\ v.child = w.data /\ v.child # NoChild,
         cl.state = "end" => \/ cl2.state = "none"
                             \/ /\ cl2.state = "bulk" /\ cl2.buf = cl.buf
                                /\ cl2.rdb = w.child,
         cl.state \notin {"start", "end"} => cl2 = cl
  PROVE  /\ ClientComes(v, cl2)
         /\ Nearer(cl, cl2)
<1>1. \A data, q : Coming(w, data, q) => Coming(v, data, q)
  BY LaterCompletes
<1>2. CASE cl.state = "start"
  <2>1. Waits(w, cl.buf)
    BY <1>2 DEF ClientComes
  <2>2. Coming(v, v.child, cl2.buf)
    BY <1>1, <1>2, <2>1, WaitsComing
  <2>3. QED
    BY <1>2, <2>2 DEF ClientComes, Unsent, Nearer
<1>3. CASE cl.state = "end"
  <2>1. Coming(v, w.child, cl.buf)
    BY <1>1, <1>3 DEF ClientComes
  <2>2. QED
    BY <1>3, <2>1 DEF ClientComes, Unsent, Nearer
<1>4. CASE cl.state \notin {"start", "end"}
  BY <1>4, LaterClient DEF Nearer
<1>5. QED
  BY <1>2, <1>3, <1>4

LEMMA BgsaveDoneArrives ==
  ASSUME IInv, Arrives, NEW ok \in BOOLEAN, BgsaveDone(ok)
  PROVE  Arrives'
<1>1. UNCHANGED <<mdata, slaveseldb, wire, slave>> /\ child' = NextChild
  BY DEF BgsaveDone
<1>2. Later(Now, Now')
  BY <1>1, NowFacts DEF Later
<1>3. mdata # NoChild
  BY NoSuchData DEF IInv, DataOK
<1>4. ASSUME NEW c \in Conns
      PROVE  /\ ClientComes(Now', client'[c])
             /\ Nearer(client[c], client'[c])
  <2> DEFINE cl == client[c]
             cl2 == client'[c]
  <2>1. cl \in Clients /\ ClientComes(Now, cl)
    BY DEF IInv, ClientOK, Arrives
  <2>2. cl2 = CASE client[c].state = "start" -> [client[c] EXCEPT !.state = "end"]
             [] client[c].state = "end" /\ ok ->
                  [client[c] EXCEPT !.state = "bulk", !.rdb = child]
             [] client[c].state = "end" /\ ~ok -> NoClient
             [] OTHER -> client[c]
    BY DEF BgsaveDone
  <2>3. cl.state = "start" => c \in In("start")
    BY DEF In
  <2> HIDE DEF cl2
  <2>4. ASSUME cl.state = "start"
        PROVE  /\ cl2.state = "end" /\ cl2.buf = cl.buf
               /\ Now'.child = Now.data /\ Now'.child # NoChild
    <3>1. cl2 = [client[c] EXCEPT !.state = "end"]
      BY <2>2, <2>4, Zenon
    <3>2. child' = mdata
      BY <1>1, <2>3, <2>4 DEF NextChild
    <3>3. QED
      BY <1>3, <2>1, <3>1, <3>2, NowFacts DEF Clients
  <2>5. ASSUME cl.state = "end"
        PROVE  \/ cl2.state = "none"
               \/ cl2.state = "bulk" /\ cl2.buf = cl.buf /\ cl2.rdb = Now.child
    <3>1. CASE ok
      <4>1. cl2 = [client[c] EXCEPT !.state = "bulk", !.rdb = child]
        BY <2>2, <2>5, <3>1, Zenon
      <4>2. QED
        BY <2>1, <4>1, NowFacts DEF Clients
    <3>2. CASE ~ok
      <4>1. cl2 = NoClient
        BY <2>2, <2>5, <3>2, Zenon
      <4>2. QED
        BY <4>1 DEF NoClient
    <3>3. QED
      BY <3>1, <3>2
  <2>6. ASSUME cl.state \notin {"start", "end"} PROVE cl2 = cl
    BY <2>2, <2>6, Zenon
  <2> HIDE DEF cl
  <2>7. /\ ClientComes(Now', cl2)
        /\ Nearer(cl, cl2)
    BY <1>2, <2>1, <2>4, <2>5, <2>6, DoneComes
  <2>8. QED
    BY <2>7 DEF cl, cl2
<1>5. ASSUME NEW s \in Slaves, NEW c, c = slave'[s].conn, c \in Conns
      PROVE  SlaveComes(Now', slave'[s], wire'[c], client'[c])
  <2> DEFINE x == slave[s]
             q == wire[c]
             cl == client[c]
             cl2 == client'[c]
  <2>1. SlaveComes(Now, x, q, cl)
    BY <1>1, <1>5 DEF Arrives
  <2>2. Nearer(cl, cl2)
    BY <1>4, <1>5
  <2> HIDE DEF x, q, cl, cl2
  <2>3. SlaveComes(Now', x, q, cl2)
    BY <1>2, <2>1, <2>2, LaterComes
  <2>4. QED
    BY <1>1, <2>3 DEF x, q, cl2
<1>6. QED
  BY <1>4, <1>5 DEF Arrives

-----------------------------------------------------------------------------
LEMMA PartialSyncArrives ==
  ASSUME IInv, Offsets, Arrives, NEW s \in Slaves, NEW c \in Conns, PartialSync(s, c)
  PROVE  Arrives'
<1> DEFINE x == slave[s]
           y == slave'[s]
           r == FromBacklog(backlog, x.reploff + 1)
           q == <<Continue>> \o r
           cl == [NoClient EXCEPT !.state = "online"]
<1>1. /\ UNCHANGED <<mdata, slaveseldb, child>> /\ Connects(s, c) /\ MayContinue(s)
      /\ client' = [client EXCEPT ![c] = cl] /\ wire' = [wire EXCEPT ![c] = q]
  BY DEF PartialSync, masterVars
<1>2. Later(Now, Now') /\ Now'.child = Now.child
  BY <1>1, NowFacts DEF Later
<1>3. /\ r \in Seq(Cells) /\ Follows(Now, x.reploff, r) /\ ToTheEnd(Now, x.reploff, r)
      /\ At(Now, Len(stream)) = mdata /\ Head(q) = Continue /\ Tail(q) = r
  <2> HIDE DEF r
  <2>1. r = FromBacklog(backlog, x.reploff + 1)
    BY DEF r
  <2>2. QED
    BY <2>1, ContinuedFacts
<1>4. client'[c] = cl /\ wire'[c] = q /\ cl.state = "online"
  BY <1>1 DEF IInv, ClientOK, WireOK, NoClient
<1>5. /\ y = Asks(x, c) /\ y.conn = c /\ y.state = "psync" /\ y.data = x.data
      /\ y.db = x.db /\ y.half = x.half /\ y.reploff = x.reploff
      /\ y.origin = x.origin /\ y.runid = x.runid
      /\ Own(Now, x) => Stands(Now, x)
  BY <1>1, AskedFacts
<1>6. SlaveOK(y)
  BY <1>5, AsksOK DEF IInv, SlavesOK
<1>7. \A t \in Slaves : t # s => slave[t].conn # c /\ slave'[t] = slave[t]
  BY <1>1, AskedFacts
<1>8. x.runid = runid
  BY <1>1 DEF MayContinue
<1> HIDE DEF x, y, q, r, cl
<1>9. ASSUME y.origin = "own" PROVE Completes(Now', Resurrect(y), r)
  <2> DEFINE z == Resurrect(y)
  <2>1. /\ SlaveOK(z) /\ z.data = x.data /\ z.db = x.db /\ z.half = x.half
        /\ z.reploff = x.reploff
    BY <1>5, <1>6, ResurrectOK
  <2> HIDE DEF z
  <2>2. Stands(Now, x)
    BY <1>5, <1>8, <1>9, NowFacts DEF Own
  <2>3. Stands(Now, z)
    BY <2>1, <2>2 DEF Stands
  <2>4. StreamWell(Now) /\ At(Now, Len(Now.stream)) = Now.data
    BY <1>3, NowFacts DEF Offsets
  <2>5. Completes(Now, z, r)
    BY <1>3, <2>1, <2>3, <2>4, StandsToEnd
  <2>6. QED
    BY <1>2, <2>5, LaterCompletes DEF z
<1>10. SlaveComes(Now', y, q, cl)
  <2>1. Head(q).kind = "continue"
    BY <1>3 DEF Continue
  <2>2. QED
    BY <1>3, <1>4, <1>5, <1>9, <2>1 DEF SlaveComes
<1>11. ClientComes(Now', client'[c])
  BY <1>4 DEF ClientComes
<1>12. \A d \in Conns : d # c => client'[d] = client[d] /\ wire'[d] = wire[d]
  BY <1>1 DEF IInv, ClientOK, WireOK
<1>13. \A t \in Slaves :
         \/ slave'[t].conn # c /\ slave'[t] = slave[t]
         \/ slave'[t].conn = c /\ SlaveComes(Now', slave'[t], wire'[c], client'[c])
  BY <1>4, <1>5, <1>7, <1>10 DEF y
<1>14. QED
  BY <1>2, <1>11, <1>12, <1>13, ArrivesFrom

-----------------------------------------------------------------------------
\* The client of a slave that is to get the dataset: of a BGSAVE of its own, of
\* one that is under way, or of the next.
LEMMA FullSyncClient ==
  ASSUME IInv, Arrives, NEW s \in Slaves, NEW c \in Conns, FullSync(s, c)
  PROVE  \E new : /\ client' = [client EXCEPT ![c] = new]
                  /\ new.state \in {"start", "end"} /\ ClientComes(Now', new)
<1>1. /\ slaveseldb' = NoDb /\ mdata' = mdata
      /\ child' = IF child = NoChild THEN mdata ELSE child
  BY DEF FullSync, AfterSync
<1>2. PICK new : /\ client' = [client EXCEPT ![c] = new]
                 /\ child = NoChild => new = [NoClient EXCEPT !.state = "end"]
                 /\ child # NoChild =>
                      \/ \E d \in In("end") : new = JoinBgsave(d)
                      \/ new = [NoClient EXCEPT !.state = "start"]
  BY DEF FullSync
<1>3. Later(Now, Now') /\ Now'.sel = NoDb /\ Now'.data = mdata
  BY <1>1, NowFacts DEF Later
<1>4. mdata # NoChild
  BY NoSuchData DEF IInv, DataOK
<1>5. Waits(Now', <<>>)
  <2> DEFINE q == <<>>
  <2>1. q \in Seq(Cells) /\ Len(q) = 0 /\ 1..0 = {}
    BY EmptySeq
  <2> HIDE DEF q
  <2>2. Waits(Now', q)
    BY <1>3, <2>1 DEF Waits
  <2>3. QED
    BY <2>2 DEF q
<1>6. CASE child = NoChild
  <2>1. new.state = "end" /\ new.buf = <<>>
    BY <1>2, <1>6 DEF NoClient
  <2>2. Now'.child = mdata
    BY <1>1, <1>6, NowFacts
  <2>3. Coming(Now', mdata, <<>>)
    BY <1>3, <1>5, WaitsComing
  <2>4. ClientComes(Now', new)
    BY <1>4, <2>1, <2>2, <2>3 DEF ClientComes
  <2>5. QED
    BY <1>2, <2>1, <2>4
<1>7. CASE child # NoChild /\ new = [NoClient EXCEPT !.state = "start"]
  <2>1. new.state = "start" /\ new.buf = <<>>
    BY <1>7 DEF NoClient
  <2>2. ClientComes(Now', new)
    BY <1>5, <2>1 DEF ClientComes
  <2>3. QED
    BY <1>2, <2>1, <2>2
<1>8. ASSUME child # NoChild, NEW d \in In("end"), new = JoinBgsave(d)
      PROVE  \E z : /\ client' = [client EXCEPT ![c] = z]
                    /\ z.state \in {"start", "end"} /\ ClientComes(Now', z)
  <2>1. new.state = "end" /\ new.buf = client[d].buf
    BY <1>8 DEF JoinBgsave, NoClient
  <2>2. Now.child # NoChild /\ Coming(Now, Now.child, client[d].buf)
    BY <1>8 DEF In, Arrives, ClientComes
  <2>3. Now'.child = Now.child
    BY <1>1, <1>8, NowFacts
  <2>4. Coming(Now', Now.child, new.buf)
    BY <1>3, <2>1, <2>2, LaterCompletes
  <2>5. ClientComes(Now', new)
    BY <2>1, <2>2, <2>3, <2>4 DEF ClientComes
  <2>6. QED
    BY <1>2, <2>1, <2>5
<1>9. QED
  BY <1>2, <1>6, <1>7, <1>8

LEMMA FullSyncArrives ==
  ASSUME IInv, Offsets, Arrives, NEW s \in Slaves, NEW c \in Conns, FullSync(s, c)
  PROVE  Arrives'
<1> DEFINE offset == Len(stream) + (IF backlog = NoBacklog THEN 1 ELSE 0)
           answer == FullResync(runid, offset, IF child = NoChild THEN "own" ELSE "shared")
           q == <<answer>>
<1>1. /\ Connects(s, c) /\ wire' = [wire EXCEPT ![c] = q]
      /\ slaveseldb' = NoDb /\ mdata' = mdata
      /\ child' = IF child = NoChild THEN mdata ELSE child
  BY DEF FullSync, AfterSync
<1>2. PICK new : /\ client' = [client EXCEPT ![c] = new]
                 /\ new.state \in {"start", "end"} /\ ClientComes(Now', new)
  BY FullSyncClient
<1>3. Later(Now, Now')
  BY <1>1, NowFacts DEF Later
<1>4. \A d \in Conns : client[d].state = "end" => Now'.child = Now.child
  BY <1>1, NoneEnds, NowFacts
<1>5. answer.kind = "fullresync"
  BY DEF FullResync
<1> HIDE DEF answer
<1>6. Head(q) = answer /\ Tail(q) = <<>>
  OBVIOUS
<1>7. client'[c] = new /\ wire'[c] = q
  BY <1>1, <1>2 DEF IInv, ClientOK, WireOK
<1> HIDE DEF q
<1>8. /\ slave'[s].state = "psync" /\ slave'[s].conn = c
      /\ \A t \in Slaves : t # s => slave[t].conn # c /\ slave'[t] = slave[t]
  BY <1>1, AskedFacts
<1>9. SlaveComes(Now', slave'[s], q, new)
  BY <1>2, <1>5, <1>6, <1>8 DEF SlaveComes, OnlyAnswer
<1>10. \A d \in Conns : d # c => client'[d] = client[d] /\ wire'[d] = wire[d]
  BY <1>1, <1>2 DEF IInv, ClientOK, WireOK
<1>11. \A t \in Slaves :
         \/ slave'[t].conn # c /\ slave'[t] = slave[t]
         \/ slave'[t].conn = c /\ SlaveComes(Now', slave'[t], wire'[c], client'[c])
  BY <1>7, <1>8, <1>9
<1>12. ClientComes(Now', client'[c])
  BY <1>2, <1>7
<1>13. QED
  BY <1>3, <1>4, <1>10, <1>11, <1>12, ArrivesFrom

-----------------------------------------------------------------------------
\* A slave that reads.
LEMMA ReadsComes ==
  ASSUME NEW w, NEW x, SlaveOK(x), x.conn # NoConn, NEW q \in Seq(Items), q # <<>>,
         NEW cl \in Clients, SlaveWell(w, x, q, cl), SlaveComes(w, x, q, cl),
         NEW item, item = Head(q), NEW y,
         item.kind = "continue" => y = Resurrect(x),
         item.kind = "fullresync" => y = Accept(x, item),
         item.kind = "rdb" => y = Load(x, item.data),
         item.kind \notin {"continue", "fullresync", "rdb"} => y = Read(x, item)
  PROVE  SlaveComes(w, y, Tail(q), cl)
<1> DEFINE r == Tail(q)
<1>1. x \in SlaveStates /\ x.state \in {"psync", "transfer", "connected"}
  BY DEF SlaveOK, SlaveStates
<1>2. item \in Items /\ r \in Seq(Items)
  BY TailFacts
<1>3. /\ x.state = "psync" => item.kind \in {"continue", "fullresync"}
      /\ x.state # "psync" => item.kind \notin {"continue", "fullresync"}
  <2>1. item = q[1] /\ Len(q) \in Nat \ {0}
    BY TailFacts
  <2>2. 1 \in 1..Len(q)
    BY <2>1
  <2>3. QED
    BY <1>1, <2>1, <2>2 DEF SlaveWell, Answered, Plain
<1> HIDE DEF r
<1>4. ASSUME Unsent(cl)
      PROVE  x.state = "psync" /\ item.kind = "fullresync" /\ r = <<>>
  BY <1>4 DEF SlaveComes, OnlyAnswer, Unsent, r
<1>5. CASE x.state = "psync" /\ item.kind = "continue"
  <2>1. y = Resurrect(x)
    BY <1>5
  <2> DEFINE z == Resurrect(x)
  <2>2. /\ z.state = "connected"
        /\ z.origin = IF x.origin = "own" THEN "own" ELSE "resumed"
    BY <1>5, ResurrectOK
  <2> HIDE DEF z
  <2>3. cl.state = "online" /\ x.origin = "own" => Completes(w, z, r)
    BY <1>5 DEF SlaveComes, r, z
  <2>4. cl.state \notin {"start", "end", "bulk"}
    BY <1>4, <1>5 DEF Unsent
  <2>5. SlaveComes(w, z, r, cl)
    BY <2>2, <2>3, <2>4 DEF SlaveComes
  <2>6. QED
    BY <2>1, <2>5 DEF r, z
<1>6. CASE x.state = "psync" /\ item.kind = "fullresync"
  <2>1. y.state = "transfer"
    <3>1. y = Accept(x, item)
      BY <1>6
    <3>2. QED
      BY <1>1, <3>1 DEF Accept, SlaveStates
  <2>2. cl.state = "online" => Delivered(w, r)
    BY <1>6 DEF SlaveComes, r
  <2>3. cl.state \in {"start", "end", "bulk"} => r = <<>>
    BY <1>4 DEF Unsent
  <2>4. SlaveComes(w, y, r, cl)
    BY <2>1, <2>2, <2>3 DEF SlaveComes, OnlyAnswer
  <2>5. QED
    BY <2>4 DEF r
<1>7. CASE x.state = "transfer"
  <2>1. cl.state \notin {"start", "end", "bulk"}
    BY <1>4, <1>7 DEF Unsent
  <2>2. ASSUME cl.state = "online" PROVE y.state = "connected" /\ Completes(w, y, r)
    <3>1. item.kind = "rdb" /\ item.data \in Datasets /\ Coming(w, item.data, r)
      BY <1>7, <2>2 DEF SlaveComes, Delivered, r
    <3>2. y = Load(x, item.data)
      BY <3>1
    <3>3. Loaded(y, item.data) /\ y.state = "connected"
      <4> DEFINE data == item.data
      <4>1. data \in Datasets /\ y = Load(x, data)
        BY <3>1, <3>2
      <4> HIDE DEF data
      <4>2. 0 \in Dbs /\ x.conn # NoConn
        BY ReplicationConstants
      <4>3. y \in SlaveStates /\ y.conn = x.conn
        BY <1>1, <4>1, <4>2 DEF Load, SlaveStates
      <4>4. y.state = "connected" /\ y.data = data /\ y.db = 0 /\ ~y.half
        BY <1>1, <4>1 DEF Load, SlaveStates
      <4>5. SlaveOK(y)
        BY <4>2, <4>3, <4>4 DEF SlaveOK
      <4>6. QED
        BY <4>4, <4>5 DEF Loaded, data
    <3>4. y \in SlaveStates
      BY <3>3 DEF Loaded, SlaveOK
    <3>5. QED
      BY <3>1, <3>3, <3>4 DEF Coming
  <2>3. SlaveComes(w, y, r, cl)
    BY <2>1, <2>2 DEF SlaveComes
  <2>4. QED
    BY <2>3 DEF r
<1>8. CASE x.state = "connected"
  <2>1. cl.state \notin {"start", "end", "bulk"}
    BY <1>4, <1>8 DEF Unsent
  <2>2. ASSUME cl.state = "online"
        PROVE  /\ y.state \notin {"psync", "transfer"}
               /\ y.origin # "resumed" => Completes(w, y, r)
    <3>1. CASE item.kind = "rdb"
      <4>1. y.state = "connected" /\ y.origin = x.origin
        BY <1>1, <3>1 DEF Load, SlaveStates
      <4>2. ASSUME x.origin # "resumed" PROVE item \in Cells
        BY <1>8, <2>2, <4>2, CompletesNext DEF SlaveComes
      <4>3. QED
        BY <3>1, <4>1, <4>2, CellFacts
    <3>2. CASE item.kind # "rdb"
      <4>1. y = Read(x, item) /\ item \in Cells
        BY <1>2, <1>3, <1>8, <3>2, ItemFacts
      <4>2. y.state = "connected" /\ y.origin = x.origin
        BY <1>8, <4>1, ReadFacts
      <4>3. x.origin # "resumed" => Completes(w, Read(x, item), r)
        BY <1>8, <2>2, CompletesNext DEF SlaveComes, r
      <4>4. QED
        BY <4>1, <4>2, <4>3
    <3>3. QED
      BY <3>1, <3>2
  <2>3. SlaveComes(w, y, r, cl)
    BY <2>1, <2>2 DEF SlaveComes
  <2>4. QED
    BY <2>3 DEF r
<1>9. QED
  BY <1>1, <1>3, <1>5, <1>6, <1>7, <1>8

LEMMA SlaveReadsArrives ==
  ASSUME IInv, Offsets, Arrives, NEW s \in Slaves, SlaveReads(s)
  PROVE  Arrives'
<1> DEFINE x == slave[s]
           c == x.conn
           q == wire[c]
           item == Head(q)
           y == CASE item.kind = "continue" -> Resurrect(x)
                  [] item.kind = "fullresync" -> Accept(x, item)
                  [] item.kind = "rdb" -> Load(x, item.data)
                  [] OTHER -> Read(x, item)
<1>1. /\ UNCHANGED <<mdata, slaveseldb, child, client>>
      /\ slave' = [slave EXCEPT ![s] = y] /\ wire' = [wire EXCEPT ![c] = Tail(q)]
      /\ c # NoConn /\ q # <<>>
  BY DEF SlaveReads, masterVars
<1>2. Later(Now, Now') /\ Now'.child = Now.child
  BY <1>1, NowFacts DEF Later
<1>3. slave'[s] = y /\ \A t \in Slaves : t # s => slave'[t] = slave[t]
  BY <1>1 DEF IInv, SlavesOK
<1>4. SlaveOK(x) /\ c \in Conns
  BY <1>1 DEF IInv, SlavesOK, SlaveOK, SlaveStates
<1>5. /\ q \in Seq(Items) /\ client[c] \in Clients /\ wire'[c] = Tail(q)
      /\ SlaveWell(Now, x, q, client[c]) /\ SlaveComes(Now, x, q, client[c])
      /\ ClientComes(Now, client[c])
  BY <1>1, <1>4 DEF IInv, WireOK, ClientOK, Offsets, WellAt, WireAt, ClientAt, Arrives
<1>6. SlaveComes(Now', y, Tail(q), client[c]) /\ y.conn = c
  <2> DEFINE e == item
             z == y
             cl == client[c]
  <2>1. /\ e.kind = "continue" => z = Resurrect(x)
        /\ e.kind = "fullresync" => z = Accept(x, e)
        /\ e.kind = "rdb" => z = Load(x, e.data)
        /\ e.kind \notin {"continue", "fullresync", "rdb"} => z = Read(x, e)
    <3> HIDE DEF x
    <3>1. CASE item.kind = "continue"
      BY <3>1, Zenon
    <3>2. CASE item.kind = "fullresync"
      BY <3>2, Zenon
    <3>3. CASE item.kind = "rdb"
      BY <3>3, Zenon
    <3>4. CASE item.kind \notin {"continue", "fullresync", "rdb"}
      BY <3>4, Zenon
    <3>5. QED
      BY <3>1, <3>2, <3>3, <3>4, Zenon
  <2>2. e = Head(q) /\ x.conn # NoConn
    BY <1>1
  <2>3. /\ q \in Seq(Items) /\ q # <<>> /\ cl \in Clients /\ SlaveOK(x)
        /\ SlaveWell(Now, x, q, cl) /\ SlaveComes(Now, x, q, cl)
    BY <1>1, <1>4, <1>5
  <2> HIDE DEF z, e, x, q, cl
  <2>4. SlaveComes(Now, z, Tail(q), cl)
    BY <2>1, <2>2, <2>3, ReadsComes
  <2>6. z.conn = x.conn
    BY <2>1, <2>2, <2>3, ReadsWell DEF Offsets
  <2>5. SlaveComes(Now', z, Tail(q), cl)
    BY <1>2, <2>4, LaterSame
  <2>7. QED
    BY <2>5, <2>6 DEF z, q, cl, x
<1> HIDE DEF y
<1>7. \A d \in Conns : d # c => client'[d] = client[d] /\ wire'[d] = wire[d]
  BY <1>1 DEF IInv, WireOK
<1>8. ClientComes(Now', client'[c])
  BY <1>1, <1>2, <1>5, LaterClient
<1>9. ASSUME NEW t \in Slaves, slave'[t].conn \in Conns
      PROVE  \/ slave'[t].conn # c /\ slave'[t] = slave[t]
             \/ slave'[t].conn = c /\ SlaveComes(Now', slave'[t], wire'[c], client'[c])
  <2>1. CASE t = s
    <3>1. SlaveComes(Now', slave'[s], wire'[c], client'[c])
      BY <1>1, <1>3, <1>5, <1>6
    <3>2. QED
      BY <1>3, <1>6, <2>1, <3>1
  <2>2. CASE t # s
    BY <1>1, <1>3, <2>2 DEF Offsets, Single
  <2>3. QED
    BY <2>1, <2>2
<1>10. QED
  BY <1>2, <1>7, <1>8, <1>9, ArrivesFrom

-----------------------------------------------------------------------------
LEMMA ArrivesStep == IInv /\ Offsets /\ Arrives /\ [Next]_vars => Arrives'
<1> SUFFICES ASSUME IInv, Offsets, Arrives, [Next]_vars PROVE Arrives'
  OBVIOUS
<1>1. CASE MasterStep
  <2>1. ASSUME NEW db \in Dbs, Write(db) PROVE Arrives'
    BY <2>1, WriteArrives
  <2>2. ASSUME NEW ok \in BOOLEAN, BgsaveDone(ok) PROVE Arrives'
    BY <2>2, BgsaveDoneArrives
  <2>3. ASSUME NEW c \in Conns, SendBulk(c) \/ MasterLoses(c) PROVE Arrives'
    BY <2>3, SendBulkArrives, MasterLosesArrives
  <2>4. ASSUME Bgsave \/ FreeBacklog PROVE Arrives'
    BY <2>4, QuietArrives DEF Bgsave, FreeBacklog
  <2>5. ASSUME Ping \/ Restart PROVE Arrives'
    BY <2>5, PingArrives, RestartArrives
  <2>6. QED
    BY <1>1, <2>1, <2>2, <2>3, <2>4, <2>5 DEF MasterStep
<1>2. CASE SlaveStep
  <2>1. ASSUME NEW s \in Slaves, NEW c \in Conns, PartialSync(s, c) \/ FullSync(s, c)
        PROVE  Arrives'
    BY <2>1, PartialSyncArrives, FullSyncArrives
  <2>2. ASSUME NEW s \in Slaves, SlaveReads(s) \/ SlaveLoses(s) PROVE Arrives'
    BY <2>2, SlaveReadsArrives, SlaveLosesArrives
  <2>3. QED
    BY <1>2, <2>1, <2>2 DEF SlaveStep, SyncCommand
<1>3. CASE UNCHANGED vars
  BY <1>3, QuietArrives DEF vars, masterVars
<1>4. QED
  BY <1>1, <1>2, <1>3 DEF Next

(***************************************************************************)
(* What is on its way to a connected slave (copyClientOutputBuffer,        *)
(* replicationFeedSlaves, updateSlavesWaitingBgsave) makes its dataset the *)
(* master's, also of one that shares the BGSAVE of another or waited for   *)
(* the next, whichever links break and whenever the BGSAVE ends or fails.  *)
(***************************************************************************)
THEOREM StreamIsComplete == Spec => []StreamCompletes
<1>1. ASSUME IInv, Arrives PROVE StreamCompletes
  <2>1. ASSUME NEW s \in Slaves, Online(s), slave[s].origin # "resumed"
        PROVE  Reads(slave[s], wire[slave[s].conn]).data = mdata
    <3> DEFINE c == slave[s].conn
    <3>1. slave[s].state = "connected" /\ client[c].state = "online"
      BY <2>1 DEF Online
    <3>2. c \in Conns
      BY <1>1, <3>1 DEF IInv, SlavesOK, SlaveOK, SlaveStates
    <3>3. SlaveComes(Now, slave[s], wire[c], client[c])
      BY <1>1, <3>2 DEF Arrives
    <3>4. Completes(Now, slave[s], wire[c])
      BY <2>1, <3>1, <3>3 DEF SlaveComes
    <3>5. QED
      BY <3>4, NowFacts DEF Completes, CaughtUp
  <2>2. QED
    BY <2>1 DEF StreamCompletes
<1>2. IInv /\ Offsets /\ Arrives /\ [Next]_vars => Arrives'
  BY ArrivesStep
<1>3. QED
  BY <1>1, <1>2, ArrivesInit, OffsetsHold, PTL DEF Spec
=============================================================================

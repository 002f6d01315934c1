----------------------------- MODULE QueueFacts -----------------------------
(***************************************************************************)
(* Queues of messages, of which the first is taken and to which others are *)
(* appended: which messages are in one, and in which order; and what a    *)
(* function that goes through a queue from its first message computes.     *)
(***************************************************************************)
EXTENDS Integers, Sequences, SequencesExt, SequenceTheorems,
        WellFoundedInduction, TLAPS

\* No message of M is in the queue.
Lacks(q, M) == \A i \in 1..Len(q) : q[i] \notin M

\* No message of M comes before one of N.
Apart(q, M, N) ==
  \A i, j \in 1..Len(q) : i < j /\ q[i] \in M => q[j] \notin N

\* Each message of M comes before, or after, one of N.
Followed(q, M, N) ==
  \A i \in 1..Len(q) : q[i] \in M => \E j \in 1..Len(q) : i < j /\ q[j] \in N
Preceded(q, M, N) ==
  \A i \in 1..Len(q) : q[i] \in M => \E j \in 1..Len(q) : j < i /\ q[j] \in N

-----------------------------------------------------------------------------
LEMMA EmptyQueue ==
  ASSUME NEW M, NEW N
  PROVE  /\ Lacks(<<>>, M) /\ Apart(<<>>, M, N) /\ Followed(<<>>, M, N)
         /\ Preceded(<<>>, M, N)
  BY DEF Lacks, Apart, Followed, Preceded

\* The first message and the others.
LEMMA TakenQueue ==
  ASSUME NEW S, NEW q \in Seq(S), q # <<>>, NEW M, NEW N
  PROVE  /\ Head(q) \in S /\ Tail(q) \in Seq(S)
         /\ Lacks(q, M) <=> Head(q) \notin M /\ Lacks(Tail(q), M)
         /\ Apart(q, M, N) => /\ Apart(Tail(q), M, N)
                              /\ Head(q) \in M => Lacks(Tail(q), N)
         /\ Followed(q, M, N) => /\ Followed(Tail(q), M, N)
                                 /\ Head(q) \in M => ~Lacks(Tail(q), N)
         /\ Preceded(q, M, N) => /\ Head(q) \notin M
                                 /\ Head(q) \notin N => Preceded(Tail(q), M, N)
<1> DEFINE n == Len(q)
           t == Tail(q)
<1>1. /\ n \in Nat /\ n > 0 /\ Head(q) \in S /\ t \in Seq(S) /\ Len(t) = n - 1
      /\ \A i \in 1..n - 1 : t[i] = q[i + 1]
      /\ Head(q) = q[1]
  BY EmptySeq, LenProperties, HeadTailProperties
<1> HIDE DEF n, t
<1>2. \A i \in 1..n - 1 : i + 1 \in 1..n
  BY <1>1
<1>3. \A i \in 1..n : i = 1 \/ (i - 1 \in 1..n - 1 /\ t[i - 1] = q[i])
  BY <1>1
<1>4. Lacks(q, M) <=> Head(q) \notin M /\ Lacks(t, M)
  <2>1. ASSUME Lacks(q, M) PROVE Head(q) \notin M /\ Lacks(t, M)
    BY <1>1, <1>2, <2>1 DEF Lacks, n
  <2>2. ASSUME Head(q) \notin M, Lacks(t, M) PROVE Lacks(q, M)
    BY <1>1, <1>3, <2>2 DEF Lacks, n
  <2>3. QED
    BY <2>1, <2>2
<1>5. ASSUME Apart(q, M, N)
      PROVE  Apart(t, M, N) /\ (Head(q) \in M => Lacks(t, N))
  <2>1. ASSUME NEW i \in 1..n - 1, NEW j \in 1..n - 1, i < j, t[i] \in M
        PROVE  t[j] \notin N
    <3>1. i + 1 \in 1..n /\ j + 1 \in 1..n /\ i + 1 < j + 1
      BY <1>1, <2>1
    <3>2. t[i] = q[i + 1] /\ t[j] = q[j + 1]
      BY <1>1
    <3>3. QED
      BY <1>5, <2>1, <3>1, <3>2 DEF Apart, n
  <2>2. ASSUME Head(q) \in M, NEW j \in 1..n - 1
        PROVE  t[j] \notin N
    <3>1. 1 \in 1..n /\ j + 1 \in 1..n /\ 1 < j + 1
      BY <1>1
    <3>2. QED
      BY <1>1, <1>5, <2>2, <3>1 DEF Apart, n
  <2>3. QED
    BY <1>1, <2>1, <2>2 DEF Apart, Lacks
<1>6. ASSUME Followed(q, M, N)
      PROVE  Followed(t, M, N) /\ (Head(q) \in M => ~Lacks(t, N))
  <2>1. ASSUME NEW i \in 1..n - 1, t[i] \in M
        PROVE  \E j \in 1..n - 1 : i < j /\ t[j] \in N
    <3>1. PICK k \in 1..n : i + 1 < k /\ q[k] \in N
      BY <1>1, <1>2, <1>6, <2>1 DEF Followed, n
    <3>2. k - 1 \in 1..n - 1 /\ i < k - 1 /\ t[k - 1] = q[k]
      BY <1>1, <1>3, <3>1
    <3>3. QED
      BY <3>1, <3>2
  <2>2. ASSUME Head(q) \in M
        PROVE  \E j \in 1..n - 1 : t[j] \in N
    <3>1. PICK k \in 1..n : 1 < k /\ q[k] \in N
      BY <1>1, <1>6, <2>2 DEF Followed, n
    <3>2. k - 1 \in 1..n - 1 /\ t[k - 1] = q[k]
      BY <1>1, <1>3, <3>1
    <3>3. QED
      BY <3>1, <3>2
  <2>3. QED
    BY <1>1, <2>1, <2>2 DEF Followed, Lacks
<1>7. ASSUME Preceded(q, M, N)
      PROVE  Head(q) \notin M /\ (Head(q) \notin N => Preceded(t, M, N))
  <2>1. Head(q) \notin M
    <3>1. 1 \in 1..n /\ \A j \in 1..n : ~(j < 1)
      BY <1>1
    <3>2. QED
      BY <1>1, <1>7, <3>1 DEF Preceded, n
  <2>2. ASSUME Head(q) \notin N, NEW i \in 1..n - 1, t[i] \in M
        PROVE  \E j \in 1..n - 1 : j < i /\ t[j] \in N
    <3>1. PICK k \in 1..n : k < i + 1 /\ q[k] \in N
      BY <1>1, <1>2, <1>7, <2>2 DEF Preceded, n
    <3>2. k # 1
      BY <1>1, <2>2, <3>1
    <3>3. k - 1 \in 1..n - 1 /\ k - 1 < i /\ t[k - 1] = q[k]
      BY <1>1, <1>3, <3>1, <3>2
    <3>4. QED
      BY <3>1, <3>3
  <2>3. QED
    BY <1>1, <2>1, <2>2 DEF Preceded
<1>8. QED
  BY <1>1, <1>4, <1>5, <1>6, <1>7 DEF t

\* Two queues one after the other.
LEMMA JoinedQueues ==
  ASSUME NEW S, NEW q \in Seq(S), NEW r \in Seq(S), NEW M, NEW N
  PROVE  /\ q \o r \in Seq(S)
         /\ Lacks(q \o r, M) <=> Lacks(q, M) /\ Lacks(r, M)
         /\ Apart(q, M, N) /\ Apart(r, M, N) /\ (Lacks(q, M) \/ Lacks(r, N))
              => Apart(q \o r, M, N)
         /\ (Followed(q, M, N) \/ ~Lacks(r, N)) /\ Followed(r, M, N)
              => Followed(q \o r, M, N)
         /\ Preceded(q, M, N) /\ (Preceded(r, M, N) \/ ~Lacks(q, N))
              => Preceded(q \o r, M, N)
<1> DEFINE m == Len(q)
           n == Len(r)
           s == q \o r
<1>1. /\ m \in Nat /\ n \in Nat /\ s \in Seq(S) /\ Len(s) = m + n
      /\ \A i \in 1..m : s[i] = q[i]
      /\ \A i \in 1..n : s[m + i] = r[i]
  <2>1. m \in Nat /\ n \in Nat /\ s \in Seq(S) /\ Len(s) = m + n
    BY LenProperties, ConcatProperties
  <2>2. \A i \in 1..m + n : s[i] = IF i <= m THEN q[i] ELSE r[i - m]
    BY ConcatProperties
  <2> HIDE DEF s, m, n
  <2>3. \A i \in 1..m : s[i] = q[i]
    BY <2>1, <2>2
  <2>4. \A i \in 1..n : s[m + i] = r[i]
    BY <2>1, <2>2
  <2>5. QED
    BY <2>1, <2>3, <2>4
<1> HIDE DEF s, m, n
<1>2. /\ \A i \in 1..m : i \in 1..m + n
      /\ \A i \in 1..n : m + i \in 1..m + n
      /\ \A i \in 1..m + n : i \in 1..m \/ (i - m \in 1..n /\ i = m + (i - m))
  BY <1>1
<1>3. \A i \in 1..m + n : \/ i \in 1..m /\ s[i] = q[i]
                          \/ i > m /\ i - m \in 1..n /\ s[i] = r[i - m]
  BY <1>1, <1>2
<1>4. Lacks(s, M) <=> Lacks(q, M) /\ Lacks(r, M)
  <2>1. ASSUME Lacks(s, M) PROVE Lacks(q, M) /\ Lacks(r, M)
    BY <1>1, <1>2, <2>1 DEF Lacks, m, n
  <2>2. ASSUME Lacks(q, M), Lacks(r, M) PROVE Lacks(s, M)
    BY <1>1, <1>3, <2>2 DEF Lacks, m, n
  <2>3. QED
    BY <2>1, <2>2
<1>5. ASSUME Apart(q, M, N), Apart(r, M, N), Lacks(q, M) \/ Lacks(r, N)
      PROVE  Apart(s, M, N)
  <2>1. SUFFICES ASSUME NEW i \in 1..m + n, NEW j \in 1..m + n, i < j, s[i] \in M
                 PROVE  s[j] \notin N
    BY <1>1 DEF Apart
  <2>2. CASE i \in 1..m /\ j \in 1..m
    BY <1>1, <1>5, <2>1, <2>2 DEF Apart, m
  <2>3. CASE i \in 1..m /\ j - m \in 1..n
    <3>1. s[i] = q[i] /\ s[j] = r[j - m]
      <4>1. ~(j \in 1..m)
        BY <1>1, <2>3
      <4>2. QED
        BY <1>1, <1>3, <2>3, <4>1
    <3>2. ~Lacks(q, M)
      BY <2>1, <2>3, <3>1 DEF Lacks, m
    <3>3. QED
      BY <1>5, <2>3, <3>1, <3>2 DEF Lacks, n
  <2>4. CASE i - m \in 1..n /\ j - m \in 1..n
    <3>1. s[i] = r[i - m] /\ s[j] = r[j - m] /\ i - m < j - m
      BY <1>1, <2>1, <2>4
    <3>2. QED
      BY <1>5, <2>1, <2>4, <3>1 DEF Apart, n
  <2>5. QED
    BY <1>1, <1>2, <2>1, <2>2, <2>3, <2>4
<1>6. ASSUME Followed(q, M, N) \/ ~Lacks(r, N), Followed(r, M, N)
      PROVE  Followed(s, M, N)
  <2>1. SUFFICES ASSUME NEW i \in 1..m + n, s[i] \in M
                 PROVE  \E j \in 1..m + n : i < j /\ s[j] \in N
    BY <1>1 DEF Followed
  <2>2. CASE i \in 1..m /\ ~Lacks(r, N)
    <3>1. PICK k \in 1..n : r[k] \in N
      BY <2>2 DEF Lacks, n
    <3>2. m + k \in 1..m + n /\ i < m + k /\ s[m + k] = r[k]
      BY <1>1, <2>2, SMTT(20)
    <3>3. QED
      BY <3>1, <3>2
  <2>3. CASE i \in 1..m /\ Followed(q, M, N)
    <3>1. PICK k \in 1..m : i < k /\ q[k] \in N
      BY <1>1, <2>1, <2>3 DEF Followed, m
    <3>2. QED
      BY <1>1, <1>2, <3>1
  <2>4. CASE i > m /\ i - m \in 1..n /\ s[i] = r[i - m]
    <3>1. PICK k \in 1..n : i - m < k /\ r[k] \in N
      BY <1>6, <2>1, <2>4 DEF Followed, n
    <3>2. m + k \in 1..m + n /\ i < m + k /\ s[m + k] = r[k]
      BY <1>1, <2>4, <3>1
    <3>3. QED
      BY <3>1, <3>2
  <2>5. QED
    BY <1>3, <1>6, <2>2, <2>3, <2>4
<1>7. ASSUME Preceded(q, M, N), Preceded(r, M, N) \/ ~Lacks(q, N)
      PROVE  Preceded(s, M, N)
  <2>1. SUFFICES ASSUME NEW i \in 1..m + n, s[i] \in M
                 PROVE  \E j \in 1..m + n : j < i /\ s[j] \in N
    BY <1>1 DEF Preceded
  <2>2. CASE i \in 1..m
    <3>1. PICK k \in 1..m : k < i /\ q[k] \in N
      BY <1>1, <1>7, <2>1, <2>2 DEF Preceded, m
    <3>2. QED
      BY <1>1, <1>2, <3>1
  <2>3. CASE i > m /\ i - m \in 1..n /\ s[i] = r[i - m] /\ ~Lacks(q, N)
    <3>1. PICK k \in 1..m : q[k] \in N
      BY <2>3 DEF Lacks, m
    <3>2. k \in 1..m + n /\ k < i /\ s[k] = q[k]
      BY <1>1, <2>3
    <3>3. QED
      BY <3>1, <3>2
  <2>4. CASE i > m /\ i - m \in 1..n /\ s[i] = r[i - m] /\ Preceded(r, M, N)
    <3>1. PICK k \in 1..n : k < i - m /\ r[k] \in N
      BY <2>1, <2>4 DEF Preceded, n
    <3>2. m + k \in 1..m + n /\ m + k < i /\ s[m + k] = r[k]
      BY <1>1, <2>4, <3>1
    <3>3. QED
      BY <3>1, <3>2
  <2>5. QED
    BY <1>3, <1>7, <2>2, <2>3, <2>4
<1>8. QED
  BY <1>1, <1>4, <1>5, <1>6, <1>7 DEF s

\* A message is put at the end.
LEMMA GrownQueue ==
  ASSUME NEW S, NEW q \in Seq(S), NEW msg \in S, NEW M, NEW N
  PROVE  /\ Append(q, msg) \in Seq(S)
         /\ Lacks(Append(q, msg), M) <=> Lacks(q, M) /\ msg \notin M
         /\ Apart(q, M, N) /\ (msg \in N => Lacks(q, M))
              => Apart(Append(q, msg), M, N)
         /\ (Followed(q, M, N) \/ msg \in N) /\ msg \notin M
              => Followed(Append(q, msg), M, N)
         /\ Preceded(q, M, N) /\ (msg \in M => ~Lacks(q, N))
              => Preceded(Append(q, msg), M, N)
<1> DEFINE r == <<msg>>
<1>1. r \in Seq(S) /\ Len(r) = 1 /\ r[1] = msg
  OBVIOUS
<1>2. Append(q, msg) = q \o r
  BY AppendIsConcat
<1> HIDE DEF r
<1>3. \A i \in 1..Len(r) : i = 1
  BY <1>1
<1>4. /\ Lacks(r, M) <=> msg \notin M
      /\ Lacks(r, N) <=> msg \notin N
      /\ Apart(r, M, N)
      /\ msg \notin M => Followed(r, M, N) /\ Preceded(r, M, N)
  <2>1. Lacks(r, M) <=> msg \notin M
    BY <1>1, <1>3 DEF Lacks
  <2>2. Lacks(r, N) <=> msg \notin N
    BY <1>1, <1>3 DEF Lacks
  <2>3. Apart(r, M, N)
    BY <1>1, <1>3 DEF Apart
  <2>4. msg \notin M => Followed(r, M, N) /\ Preceded(r, M, N)
    BY <1>1, <1>3 DEF Followed, Preceded
  <2>5. QED
    BY <2>1, <2>2, <2>3, <2>4
<1>5. QED
  BY <1>1, <1>2, <1>4, JoinedQueues

\* The messages of a queue that lost its first one, that one more was put to,
\* that another was put behind.
LEMMA TailFacts ==
  ASSUME NEW S, NEW q \in Seq(S), q # <<>>
  PROVE  /\ Tail(q) \in Seq(S) /\ Len(q) \in Nat \ {0} /\ Len(Tail(q)) = Len(q) - 1
         /\ Head(q) = q[1] /\ Head(q) \in S
         /\ \A i \in 1..Len(q) - 1 : Tail(q)[i] = q[i + 1]
         /\ ToSet(q) = {Head(q)} \cup ToSet(Tail(q))
<1>1. /\ Len(q) \in Nat \ {0} /\ Head(q) \in S /\ Tail(q) \in Seq(S)
      /\ Len(Tail(q)) = Len(q) - 1 /\ Head(q) = q[1]
      /\ \A i \in 1..Len(q) - 1 : Tail(q)[i] = q[i + 1]
  BY EmptySeq, LenProperties, HeadTailProperties
<1>2. DOMAIN q = 1..Len(q) /\ DOMAIN Tail(q) = 1..Len(Tail(q))
  BY <1>1, LenProperties
<1>3. ASSUME NEW x \in ToSet(q) PROVE x \in {Head(q)} \cup ToSet(Tail(q))
  <2>1. PICK i \in 1..Len(q) : x = q[i]
    BY <1>2 DEF ToSet
  <2>2. i = 1 \/ (i - 1 \in 1..Len(q) - 1 /\ (i - 1) + 1 = i)
    BY <1>1
  <2>3. i = 1 \/ (i - 1 \in DOMAIN Tail(q) /\ x = Tail(q)[i - 1])
    BY <1>1, <1>2, <2>1, <2>2
  <2>4. QED
    BY <1>1, <2>1, <2>3 DEF ToSet
<1>4. ASSUME NEW x \in {Head(q)} \cup ToSet(Tail(q)) PROVE x \in ToSet(q)
  <2>1. CASE x = Head(q)
    BY <1>1, <1>2, <2>1 DEF ToSet
  <2>2. CASE x \in ToSet(Tail(q))
    <3>1. PICK i \in 1..Len(q) - 1 : x = Tail(q)[i]
      BY <1>1, <1>2, <2>2 DEF ToSet
    <3>2. i + 1 \in DOMAIN q /\ x = q[i + 1]
      BY <1>1, <1>2, <3>1
    <3>3. QED
      BY <3>2 DEF ToSet
  <2>3. QED
    BY <1>4, <2>1, <2>2
<1>5. QED
  BY <1>1, <1>3, <1>4

LEMMA AppendFacts ==
  ASSUME NEW S, NEW q \in Seq(S), NEW x \in S
  PROVE  /\ Append(q, x) \in Seq(S) /\ Len(q) \in Nat
         /\ Len(Append(q, x)) = Len(q) + 1
         /\ \A i \in 1..Len(q) : Append(q, x)[i] = q[i]
         /\ Append(q, x)[Len(q) + 1] = x
         /\ ToSet(Append(q, x)) = ToSet(q) \cup {x}
<1> DEFINE r == Append(q, x)
<1>1. /\ r \in Seq(S) /\ Len(q) \in Nat /\ Len(r) = Len(q) + 1
      /\ \A i \in 1..Len(q) : r[i] = q[i]
      /\ r[Len(q) + 1] = x
  BY AppendProperties, LenProperties
<1>2. DOMAIN q = 1..Len(q) /\ DOMAIN r = 1..Len(q) + 1
  BY <1>1, LenProperties
<1> HIDE DEF r
<1>3. ASSUME NEW y \in ToSet(r) PROVE y \in ToSet(q) \cup {x}
  <2>1. PICK i \in 1..Len(q) + 1 : y = r[i]
    BY <1>2 DEF ToSet
  <2>2. i = Len(q) + 1 \/ i \in 1..Len(q)
    BY <1>1
  <2>3. QED
    BY <1>1, <1>2, <2>1, <2>2 DEF ToSet
<1>4. ASSUME NEW y \in ToSet(q) \cup {x} PROVE y \in ToSet(r)
  <2>1. CASE y = x
    <3>1. Len(q) + 1 \in DOMAIN r
      BY <1>1, <1>2
    <3>2. QED
      BY <1>1, <2>1, <3>1 DEF ToSet
  <2>2. CASE y \in ToSet(q)
    <3>1. PICK i \in 1..Len(q) : y = q[i]
      BY <1>2, <2>2 DEF ToSet
    <3>2. i \in DOMAIN r /\ y = r[i]
      BY <1>1, <1>2, <3>1
    <3>3. QED
      BY <3>2 DEF ToSet
  <2>3. QED
    BY <1>4, <2>1, <2>2
<1>5. QED
  BY <1>1, <1>3, <1>4 DEF r

LEMMA ConcatFacts ==
  ASSUME NEW S, NEW q \in Seq(S), NEW r \in Seq(S)
  PROVE  /\ q \o r \in Seq(S) /\ Len(q) \in Nat /\ Len(r) \in Nat
         /\ Len(q \o r) = Len(q) + Len(r)
         /\ \A i \in 1..Len(q) : (q \o r)[i] = q[i]
         /\ \A i \in 1..Len(r) : (q \o r)[Len(q) + i] = r[i]
         /\ ToSet(q \o r) = ToSet(q) \cup ToSet(r)
<1> DEFINE s == q \o r
<1>1. s \in Seq(S) /\ Len(q) \in Nat /\ Len(r) \in Nat /\ Len(s) = Len(q) + Len(r)
  BY ConcatProperties, LenProperties
<1>2. \A i \in 1..Len(q) + Len(r) :
        s[i] = IF i <= Len(q) THEN q[i] ELSE r[i - Len(q)]
  BY ConcatProperties
<1>3. DOMAIN q = 1..Len(q) /\ DOMAIN r = 1..Len(r) /\ DOMAIN s = 1..Len(s)
  BY <1>1, LenProperties
<1> HIDE DEF s
<1>4. \A i \in 1..Len(q) : i \in DOMAIN s /\ s[i] = q[i]
  BY <1>1, <1>2, <1>3
<1>5. \A i \in 1..Len(r) : Len(q) + i \in DOMAIN s /\ s[Len(q) + i] = r[i]
  BY <1>1, <1>2, <1>3
<1>6. ASSUME NEW x \in ToSet(s) PROVE x \in ToSet(q) \cup ToSet(r)
  <2>1. PICK i \in 1..Len(q) + Len(r) : x = s[i]
    BY <1>1, <1>3 DEF ToSet
  <2>2. CASE i \in 1..Len(q)
    BY <1>3, <1>4, <2>1, <2>2 DEF ToSet
  <2>3. CASE i - Len(q) \in 1..Len(r)
    <3>1. x = r[i - Len(q)]
      BY <1>1, <1>2, <2>1, <2>3
    <3>2. QED
      BY <1>3, <2>3, <3>1 DEF ToSet
  <2>4. QED
    BY <1>1, <2>1, <2>2, <2>3
<1>7. ASSUME NEW x \in ToSet(q) \cup ToSet(r) PROVE x \in ToSet(s)
  <2>1. CASE x \in ToSet(q)
    BY <1>3, <1>4, <2>1 DEF ToSet
  <2>2. CASE x \in ToSet(r)
    BY <1>3, <1>5, <2>2 DEF ToSet
  <2>3. QED
    BY <1>7, <2>1, <2>2
<1>8. QED
  BY <1>1, <1>4, <1>5, <1>6, <1>7 DEF s

\* A message put behind two queues was put behind the second.
LEMMA AppendBehind ==
  ASSUME NEW S, NEW q \in Seq(S), NEW r \in Seq(S), NEW x \in S
  PROVE  q \o Append(r, x) = Append(q \o r, x)
<1>1. Append(r, x) = r \o <<x>> /\ Append(q \o r, x) = (q \o r) \o <<x>>
  BY AppendIsConcat, ConcatFacts
<1>2. <<x>> \in Seq(S)
  OBVIOUS
<1>3. QED
  BY <1>1, <1>2, ConcatAssociative

\* The first message of two queues is that of the first.
LEMMA HeadOfTwo ==
  ASSUME NEW S, NEW q \in Seq(S), NEW r \in Seq(S), q # <<>>
  PROVE  q \o r # <<>> /\ Head(q \o r) = Head(q) /\ Tail(q \o r) = Tail(q) \o r
<1>1. /\ q = <<Head(q)>> \o Tail(q) /\ Tail(q) \in Seq(S)
      /\ <<Head(q)>> \in Seq(S)
  BY HeadTailProperties, ConcatProperties, TailFacts
<1>2. q \o r = <<Head(q)>> \o (Tail(q) \o r)
  BY <1>1, ConcatAssociative
<1>3. Tail(q) \o r \in Seq(S) /\ Head(q) \in S
  BY <1>1, ConcatFacts, TailFacts
<1>4. QED
  BY <1>2, <1>3

-----------------------------------------------------------------------------
(***************************************************************************)
(* Induction: the order of the naturals is well founded, which gives a     *)
(* non-empty set of them a least member.                                   *)
(***************************************************************************)
Smaller == {s \in Nat \X Nat : s[1] < s[2]}

\* A set of naturals has a least member.
LEMMA Least ==
  ASSUME NEW T, T \subseteq Nat, T # {}
  PROVE  \E x \in T : \A y \in T : x <= y
<1>1. IsWellFoundedOn(Smaller, Nat)
  BY NatLessThanWellFounded DEF OpToRel, Smaller
<1>2. PICK x \in T : \A y \in T : ~ (<<y, x>> \in Smaller)
  BY <1>1, WFMin
<1>3. ASSUME NEW y \in T PROVE x <= y
  <2>1. <<y, x>> \in Nat \X Nat /\ ~(<<y, x>> \in Smaller)
    BY <1>2
  <2>2. ~(y < x)
    BY <2>1 DEF Smaller
  <2>3. QED
    BY <2>2
<1>4. QED
  BY <1>3

\* Induction over the naturals, for the set of those of which a fact holds.
LEMMA InductiveSet ==
  ASSUME NEW T, 0 \in T, \A n \in Nat : n \in T => n + 1 \in T
  PROVE  Nat \subseteq T
<1>1. SUFFICES ASSUME Nat \ T # {} PROVE FALSE
  OBVIOUS
<1>2. PICK x \in Nat \ T : \A y \in Nat \ T : x <= y
  BY <1>1, Least
<1>3. x # 0 /\ x - 1 \in Nat /\ ~(x <= x - 1)
  BY <1>2
<1>4. x - 1 \in T
  BY <1>2, <1>3
<1>5. (x - 1) + 1 \in T /\ (x - 1) + 1 = x
  BY <1>2, <1>3, <1>4
<1>6. QED
  BY <1>2, <1>5

\* f is what a function defined by recursion over 0..n is to be: its value at
\* i comes of the one before, by G.
FoldOf(f, n, S, b, G) ==
  /\ f \in [0..n -> S] /\ f[0] = b
  /\ \A i \in 1..n : f[i] = G[<<f[i - 1], i>>]

\* There is such a function.
LEMMA FoldExists ==
  ASSUME NEW n \in Nat, NEW S, NEW b \in S, NEW G \in [S \X (1..n) -> S]
  PROVE  \E f : FoldOf(f, n, S, b, G)
<1> DEFINE Good(k, f) == f \in [0..k -> S] /\ f[0] = b
                         /\ \A i \in 1..k : f[i] = G[<<f[i - 1], i>>]
           T == {k \in Nat : k <= n => \E f \in [0..k -> S] : Good(k, f)}
<1>1. 0 \in T
  <2>1. Good(0, [i \in 0..0 |-> b])
    OBVIOUS
  <2>2. QED
    BY <2>1
<1>2. ASSUME NEW k \in Nat, k \in T PROVE k + 1 \in T
  <2>1. SUFFICES ASSUME k + 1 <= n PROVE \E f \in [0..k + 1 -> S] : Good(k + 1, f)
    OBVIOUS
  <2>2. PICK f \in [0..k -> S] : Good(k, f)
    BY <1>2, <2>1
  <2> DEFINE g == [i \in 0..k + 1 |-> IF i <= k THEN f[i] ELSE G[<<f[k], k + 1>>]]
  <2>3. f[k] \in S /\ k + 1 \in 1..n
    BY <2>1, <2>2
  <2>4. G[<<f[k], k + 1>>] \in S
    BY <2>3
  <2>5. g \in [0..k + 1 -> S] /\ g[0] = b /\ g[k + 1] = G[<<f[k], k + 1>>]
    BY <2>2, <2>4
  <2>6. \A i \in 0..k : g[i] = f[i]
    OBVIOUS
  <2> HIDE DEF g
  <2>7. ASSUME NEW i \in 1..k + 1 PROVE g[i] = G[<<g[i - 1], i>>]
    <3>1. CASE i = k + 1
      <4>1. i - 1 = k /\ k \in 0..k
        BY <3>1
      <4>2. QED
        BY <2>5, <2>6, <3>1, <4>1
    <3>2. CASE i \in 1..k
      <4>1. i - 1 \in 0..k /\ i \in 0..k
        BY <3>2
      <4>2. f[i] = G[<<f[i - 1], i>>]
        BY <2>2, <3>2
      <4>3. QED
        BY <2>6, <4>1, <4>2
    <3>3. QED
      BY <3>1, <3>2
  <2>8. Good(k + 1, g)
    BY <2>5, <2>7
  <2>9. QED
    BY <2>5, <2>8
<1>3. n \in T
  <2> HIDE DEF T
  <2>1. QED
    BY <1>1, <1>2, InductiveSet
<1>4. PICK f \in [0..n -> S] : Good(n, f)
  BY <1>3
<1>5. QED
  BY <1>4 DEF FoldOf

\* There is one at most: two functions that start alike and go on alike from
\* where they agree.
GoAlike(f, g, n) ==
  /\ f[0] = g[0]
  /\ \A k \in 0..n - 1 : f[k] = g[k] => f[k + 1] = g[k + 1]

LEMMA FoldUnique ==
  ASSUME NEW n \in Nat, NEW f, NEW g, GoAlike(f, g, n)
  PROVE  \A k \in 0..n : f[k] = g[k]
<1> DEFINE T == {k \in Nat : k <= n => f[k] = g[k]}
<1>1. 0 \in T
  BY DEF GoAlike
<1>2. ASSUME NEW k \in Nat, k \in T PROVE k + 1 \in T
  <2>1. SUFFICES ASSUME k + 1 <= n PROVE f[k + 1] = g[k + 1]
    OBVIOUS
  <2>2. k <= n /\ k \in 0..n - 1
    BY <2>1
  <2>3. f[k] = g[k]
    BY <1>2, <2>2
  <2>4. QED
    BY <2>2, <2>3 DEF GoAlike
<1>3. Nat \subseteq T
  <2> HIDE DEF T
  <2>1. QED
    BY <1>1, <1>2, InductiveSet
<1>4. QED
  BY <1>3
-----------------------------------------------------------------------------
(***************************************************************************)
(* Sequences of sequences.                                                 *)
(***************************************************************************)
\* A sequence of sequences is joined from the left.
JoinOf(f, ss, S) ==
  /\ f \in [0..Len(ss) -> Seq(S)] /\ f[0] = <<>>
  /\ \A i \in 1..Len(ss) : f[i] = f[i - 1] \o ss[i]

LEMMA FlattenIsJoin ==
  ASSUME NEW S, NEW ss \in Seq(Seq(S))
  PROVE  \E f : JoinOf(f, ss, S) /\ FlattenSeq(ss) = f[Len(ss)]
<1> DEFINE n == Len(ss)
           G == [s \in Seq(S) \X (1..n) |-> s[1] \o ss[s[2]]]
           F(g) == g = [i \in 1..n |-> IF i = 1 THEN ss[i] ELSE g[i - 1] \o ss[i]]
<1>1. n \in Nat /\ \A i \in 1..n : ss[i] \in Seq(S)
  BY LenProperties, ElementOfSeq
<1>2. <<>> \in Seq(S)
  OBVIOUS
<1>3. /\ G \in [Seq(S) \X (1..n) -> Seq(S)]
      /\ \A s \in Seq(S), i \in 1..n : G[<<s, i>>] = s \o ss[i]
  <2>1. \A s \in Seq(S), i \in 1..n : s \o ss[i] \in Seq(S)
    BY <1>1, ConcatProperties
  <2> HIDE DEF n
  <2>2. QED
    BY <2>1
<1> HIDE DEF n, G
<1>4. PICK f : FoldOf(f, n, Seq(S), <<>>, G)
  BY <1>1, <1>2, <1>3, FoldExists
<1>5. JoinOf(f, ss, S)
  <2>1. f \in [0..n -> Seq(S)] /\ f[0] = <<>>
    BY <1>4 DEF FoldOf
  <2>2. ASSUME NEW i \in 1..n PROVE f[i] = f[i - 1] \o ss[i]
    <3>1. i - 1 \in 0..n
      BY <1>1
    <3>2. f[i] = G[<<f[i - 1], i>>]
      BY <1>4 DEF FoldOf
    <3>3. f[i - 1] \in Seq(S)
      BY <2>1, <3>1
    <3>4. QED
      BY <1>3, <3>2, <3>3
  <2>3. QED
    BY <2>1, <2>2 DEF JoinOf, n
<1>6. CASE n = 0
  <2>1. ss = <<>>
    BY <1>6, EmptySeq DEF n
  <2>2. QED
    BY <1>5, <1>6, <2>1 DEF FlattenSeq, JoinOf, n
<1>7. CASE n # 0
  <2> DEFINE g == [i \in 1..n |-> f[i]]
  <2>1. /\ f[0] = <<>> /\ \A i \in 1..n : f[i] = f[i - 1] \o ss[i]
        /\ f[1] = ss[1] /\ 1 \in 1..n /\ n \in 1..n
    <3>1. f[0] = <<>> /\ \A i \in 1..n : f[i] = f[i - 1] \o ss[i]
      BY <1>5 DEF JoinOf, n
    <3>2. 1 \in 1..n /\ n \in 1..n /\ 1 - 1 = 0
      BY <1>1, <1>7
    <3>3. <<>> \o ss[1] = ss[1]
      BY <1>1, <3>2, ConcatEmptySeq
    <3>4. QED
      BY <3>1, <3>2, <3>3
  <2>2. F(g)
    <3>1. ASSUME NEW i \in 1..n
          PROVE  g[i] = IF i = 1 THEN ss[i] ELSE g[i - 1] \o ss[i]
      <4>1. i = 1 \/ i - 1 \in 1..n
        BY <1>1
      <4>2. QED
        BY <2>1, <4>1
    <3>2. QED
      BY <3>1
  <2>3. ASSUME NEW h, F(h) PROVE h = g
    <3> DEFINE h0 == [i \in 0..n |-> IF i = 0 THEN <<>> ELSE h[i]]
    <3>1. DOMAIN h = 1..n /\ h = [i \in 1..n |-> h[i]] /\ h[1] = ss[1]
      BY <2>1, <2>3
    <3>2. ASSUME NEW k \in 0..n - 1, h0[k] = f[k] PROVE h0[k + 1] = f[k + 1]
      <4>1. CASE k = 0
        BY <1>1, <2>1, <3>1, <3>2, <4>1
      <4>2. CASE k # 0
        <5>1. /\ k \in 0..n /\ k + 1 \in 0..n /\ k + 1 \in 1..n /\ (k + 1) - 1 = k
              /\ k + 1 # 1 /\ k + 1 # 0
          BY <1>1, <4>2
        <5>2. h[k + 1] = h[k] \o ss[k + 1] /\ h[k] = h0[k] /\ h0[k + 1] = h[k + 1]
          BY <2>3, <4>2, <5>1
        <5>3. QED
          BY <2>1, <3>2, <5>1, <5>2
      <4>3. QED
        BY <4>1, <4>2
    <3>3. GoAlike(h0, f, n)
      <4>1. h0[0] = f[0]
        BY <1>1, <2>1
      <4> HIDE DEF h0
      <4>2. QED
        BY <3>2, <4>1 DEF GoAlike
    <3>4. \A i \in 0..n : h0[i] = f[i]
      <4> HIDE DEF h0
      <4>1. QED
        BY <1>1, <3>3, FoldUnique
    <3>5. \A i \in 1..n : h[i] = f[i]
      BY <1>1, <3>4
    <3>6. QED
      BY <3>1, <3>5
  <2>4. FlattenSeq(ss) = (CHOOSE h : F(h))[n]
    BY <1>7 DEF FlattenSeq, n
  <2>5. (CHOOSE h : F(h)) = g
    <3> HIDE DEF F, g
    <3>1. QED
      BY <2>2, <2>3
  <2>6. FlattenSeq(ss) = f[n]
    BY <2>1, <2>4, <2>5
  <2>7. QED
    BY <1>5, <2>6 DEF n
<1>8. QED
  BY <1>6, <1>7

\* What is joined has the members of all.
LEMMA FlattenMembers ==
  ASSUME NEW S, NEW ss \in Seq(Seq(S))
  PROVE  /\ FlattenSeq(ss) \in Seq(S)
         /\ \A x : x \in ToSet(FlattenSeq(ss))
                     <=> \E i \in 1..Len(ss) : x \in ToSet(ss[i])
<1> DEFINE n == Len(ss)
           Has(s, k) == \A x : x \in ToSet(s) <=> \E i \in 1..k : x \in ToSet(ss[i])
<1>1. n \in Nat /\ \A i \in 1..n : ss[i] \in Seq(S)
  BY LenProperties, ElementOfSeq
<1>2. PICK f : JoinOf(f, ss, S) /\ FlattenSeq(ss) = f[n]
  BY FlattenIsJoin
<1>3. /\ f \in [0..n -> Seq(S)] /\ f[0] = <<>>
      /\ \A i \in 1..n : f[i] = f[i - 1] \o ss[i]
  BY <1>2 DEF JoinOf
<1> DEFINE T == {k \in Nat : k <= n => Has(f[k], k)}
<1>4. 0 \in T
  BY <1>1, <1>3 DEF ToSet
<1>5. ASSUME NEW k \in Nat, k \in T PROVE k + 1 \in T
  <2>1. SUFFICES ASSUME k + 1 <= n PROVE Has(f[k + 1], k + 1)
    <3> HIDE DEF Has
    <3>1. QED
      OBVIOUS
  <2>2. k + 1 \in 1..n /\ (k + 1) - 1 = k /\ k \in 0..n /\ k <= n
    BY <1>1, <2>1
  <2>3. f[k + 1] = f[k] \o ss[k + 1] /\ f[k] \in Seq(S) /\ ss[k + 1] \in Seq(S)
    BY <1>1, <1>3, <2>2
  <2>4. ToSet(f[k + 1]) = ToSet(f[k]) \cup ToSet(ss[k + 1])
    BY <2>3, ConcatFacts
  <2>5. Has(f[k], k)
    BY <1>5, <2>2
  <2>6. \A i : i \in 1..k + 1 <=> i \in 1..k \/ i = k + 1
    OBVIOUS
  <2>7. QED
    BY <2>4, <2>5, <2>6
<1>6. n \in T
  <2> HIDE DEF T
  <2>1. QED
    BY <1>1, <1>4, <1>5, InductiveSet
<1>7. f[n] \in Seq(S)
  BY <1>1, <1>3
<1>8. QED
  BY <1>2, <1>6, <1>7

\* The first of the sequences comes first.
LEMMA FlattenFirst ==
  ASSUME NEW S, NEW ss \in Seq(Seq(S)), ss # <<>>
  PROVE  /\ ss[1] \in Seq(S) /\ Tail(ss) \in Seq(Seq(S))
         /\ FlattenSeq(ss) = ss[1] \o FlattenSeq(Tail(ss))
<1> DEFINE n == Len(ss)
           t == Tail(ss)
<1>1. /\ n \in Nat /\ n > 0 /\ t \in Seq(Seq(S)) /\ Len(t) = n - 1
      /\ \A i \in 1..n - 1 : t[i] = ss[i + 1]
      /\ \A i \in 1..n : ss[i] \in Seq(S)
  BY TailFacts, ElementOfSeq
<1>2. PICK f : JoinOf(f, ss, S) /\ FlattenSeq(ss) = f[n]
  BY FlattenIsJoin
<1>3. PICK g : JoinOf(g, t, S) /\ FlattenSeq(t) = g[n - 1]
  BY <1>1, FlattenIsJoin
<1> HIDE DEF n, t
<1>4. /\ f \in [0..n -> Seq(S)] /\ f[0] = <<>>
      /\ \A i \in 1..n : f[i] = f[i - 1] \o ss[i]
  BY <1>2 DEF JoinOf, n
<1>5. /\ g \in [0..n - 1 -> Seq(S)] /\ g[0] = <<>>
      /\ \A i \in 1..n - 1 : g[i] = g[i - 1] \o t[i]
  BY <1>1, <1>3 DEF JoinOf
<1> DEFINE T == {k \in Nat : k <= n - 1 => f[k + 1] = ss[1] \o g[k]}
<1>6. 0 \in T
  <2>1. 1 \in 1..n /\ 1 - 1 = 0 /\ 0 + 1 = 1
    BY <1>1
  <2>2. <<>> \o ss[1] = ss[1] /\ ss[1] \o <<>> = ss[1]
    BY <1>1, <2>1, ConcatEmptySeq
  <2>3. QED
    BY <1>4, <1>5, <2>1, <2>2
<1>7. ASSUME NEW k \in Nat, k \in T PROVE k + 1 \in T
  <2>1. SUFFICES ASSUME k + 1 <= n - 1 PROVE f[(k + 1) + 1] = ss[1] \o g[k + 1]
    <3>1. k + 1 \in Nat
      OBVIOUS
    <3>2. QED
      BY <3>1
  <2>2. /\ k + 1 \in 1..n - 1 /\ (k + 1) - 1 = k /\ k \in 0..n - 1 /\ k <= n - 1
        /\ (k + 1) + 1 \in 1..n /\ ((k + 1) + 1) - 1 = k + 1 /\ 1 \in 1..n
    BY <1>1, <2>1
  <2>3. /\ f[(k + 1) + 1] = f[k + 1] \o ss[(k + 1) + 1] /\ f[k + 1] = ss[1] \o g[k]
        /\ g[k + 1] = g[k] \o t[k + 1] /\ t[k + 1] = ss[(k + 1) + 1]
    BY <1>1, <1>4, <1>5, <1>7, <2>2
  <2>4. ss[1] \in Seq(S) /\ g[k] \in Seq(S) /\ t[k + 1] \in Seq(S)
    BY <1>1, <1>5, <2>2, <2>3
  <2>5. (ss[1] \o g[k]) \o t[k + 1] = ss[1] \o (g[k] \o t[k + 1])
    <3>1. \A a, b, c \in Seq(S) : (a \o b) \o c = a \o (b \o c)
      BY ConcatAssociative
    <3>2. QED
      BY <2>4, <3>1
  <2>6. QED
    BY <2>3, <2>5
<1>8. n - 1 \in T
  <2>1. n - 1 \in Nat
    BY <1>1
  <2> HIDE DEF T
  <2>2. QED
    BY <1>6, <1>7, <2>1, InductiveSet
<1>9. f[n] = ss[1] \o g[n - 1]
  <2>1. n - 1 <= n - 1 /\ (n - 1) + 1 = n
    BY <1>1
  <2>2. QED
    BY <1>8, <2>1
<1>10. 1 \in 1..n
  BY <1>1
<1>11. QED
  BY <1>1, <1>2, <1>3, <1>9, <1>10 DEF t

\* What is joined of those from i on.
JoinedFrom(ss, i) == FlattenSeq(SubSeq(ss, i, Len(ss)))

LEMMA JoinedFromFacts ==
  ASSUME NEW S, NEW ss \in Seq(Seq(S))
  PROVE  /\ JoinedFrom(ss, 1) = FlattenSeq(ss)
         /\ JoinedFrom(ss, Len(ss) + 1) = <<>>
         /\ \A i \in 1..Len(ss) + 1 : JoinedFrom(ss, i) \in Seq(S)
         /\ \A i \in 1..Len(ss) : /\ ss[i] \in Seq(S)
                                  /\ JoinedFrom(ss, i) = ss[i] \o JoinedFrom(ss, i + 1)
<1> DEFINE n == Len(ss)
           From(i) == SubSeq(ss, i, n)
<1>1. n \in Nat /\ \A i \in 1..n : ss[i] \in Seq(S)
  BY LenProperties, ElementOfSeq
<1>2. From(1) = ss
  BY SubSeqFull
<1>3. From(n + 1) = <<>>
  BY <1>1, SubSeqEmpty
<1>4. ASSUME NEW i \in 1..n + 1 PROVE From(i) \in Seq(Seq(S))
  BY <1>1, SubSeqProperties
<1>5. ASSUME NEW i \in 1..n PROVE JoinedFrom(ss, i) = ss[i] \o JoinedFrom(ss, i + 1)
  <2>1. n \in i..n /\ i \in 1..n + 1
    BY <1>1
  <2>2. Head(From(i)) = ss[i] /\ Tail(From(i)) = From(i + 1)
    BY <2>1, HeadTailOfSubSeq
  <2>3. From(i) \in Seq(Seq(S)) /\ From(i) # <<>>
    <3>1. Len(From(i)) = n - i + 1 /\ n - i + 1 > 0
      BY <1>1, <2>1, SubSeqProperties
    <3>2. Len(<<>>) = 0
      OBVIOUS
    <3> HIDE DEF From
    <3>3. QED
      BY <1>4, <2>1, <3>1, <3>2
  <2> HIDE DEF From
  <2>4. From(i)[1] = ss[i]
    BY <2>2, <2>3, TailFacts
  <2>5. FlattenSeq(From(i)) = ss[i] \o FlattenSeq(From(i + 1))
    BY <2>2, <2>3, <2>4, FlattenFirst
  <2>6. QED
    BY <2>5 DEF JoinedFrom, From
<1>6. JoinedFrom(ss, n + 1) = <<>>
  <2>1. Len(<<>>) = 0
    OBVIOUS
  <2>2. QED
    BY <1>3, <2>1 DEF JoinedFrom, FlattenSeq
<1>7. \A i \in 1..n + 1 : JoinedFrom(ss, i) \in Seq(S)
  <2> HIDE DEF From
  <2>1. ASSUME NEW i \in 1..n + 1 PROVE FlattenSeq(From(i)) \in Seq(S)
    BY <1>4, FlattenMembers
  <2>2. QED
    BY <2>1 DEF JoinedFrom, From
<1>8. QED
  BY <1>1, <1>2, <1>5, <1>6, <1>7 DEF JoinedFrom
=============================================================================

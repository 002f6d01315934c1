------------------------ MODULE ProgramParts_proofs ------------------------
(***************************************************************************)
(* The loop over the sockets reads freed memory only after three           *)
(* connections, a record is cut at most once on its way, and what the      *)
(* client reads of CLUSTER SLOTS names the master of every key's slot.     *)
(***************************************************************************)
EXTENDS SlotTable, RecordPath, SocketMgr, QueueFacts, FiniteSetTheorems, TLAPS

-----------------------------------------------------------------------------
(***************************************************************************)
(* The vector of nodes.                                                    *)
(***************************************************************************)
States == {"none", "backlog", "open", "lost", "closed", "deleted"}
AllNodes == Conns \cup {Db, Listen}

\* The nodes of the database and of the listener come first, the others are
\* those of connections, each once.
Vector(nodes) ==
  /\ nodes \in Seq(AllNodes) /\ Len(nodes) >= 2
  /\ nodes[1] = Db /\ nodes[2] = Listen
  /\ \A i \in 3..Len(nodes) : nodes[i] \in Conns
  /\ \A i, j \in 1..Len(nodes) : nodes[i] = nodes[j] => i = j

\* A vector that has held a connection has room for two.
Roomy(nodes) == Len(nodes) > 2 => capacity >= 4

MgrTypes ==
  /\ capacity \in Nat /\ pos \in Nat \ {0} /\ peak \in Nat
  /\ sock \in [Conns -> States]

\* The inductive invariant: the vector moves at the listener, and either that
\* ends the pass or there are three connections.
MgrInv ==
  /\ MgrTypes /\ Vector(m_node) /\ Roomy(m_node)
  /\ capacity = 2 \/ capacity >= 4
  /\ \A i \in 3..Len(m_node) : sock[m_node[i]] \notin {"none", "backlog"}
  /\ pass # <<>> => Vector(pass) /\ Roomy(pass)
  /\ moved => pos > 2 /\ pass # <<>> /\ (Len(pass) = 2 \/ peak >= 3)
  /\ touched => peak >= 3

-----------------------------------------------------------------------------
\* What push_backs make of the room.
LEMMA RoomFacts ==
  ASSUME NEW n \in Nat, NEW room \in Nat
  PROVE  /\ Room(n, room) \in Nat /\ Room(n, room) >= room
         /\ n <= room => Room(n, room) = room
         /\ n > room /\ room >= 2 => Room(n, room) >= 4
<1> DEFINE Next1(x) == IF n <= x THEN x ELSE 2 * x
           G == [s \in Nat \X (1..n) |-> Next1(s[1])]
           Good(i, x) == /\ x \in Nat /\ x >= room
                         /\ n <= room => x = room
                         /\ n > room => x >= 2 * room \/ (i = 0 /\ x = room)
           F(f) == f = [i \in 0..n |-> IF i = 0 THEN room
                                      ELSE IF n <= f[i - 1] THEN f[i - 1] ELSE 2 * f[i - 1]]
<1>1. /\ G \in [Nat \X (1..n) -> Nat]
      /\ \A x \in Nat, i \in 1..n : G[<<x, i>>] = Next1(x)
  OBVIOUS
<1>2. PICK f : FoldOf(f, n, Nat, room, G)
  <2> HIDE DEF G
  <2>1. QED
    BY <1>1, FoldExists
<1>3. f \in [0..n -> Nat] /\ f[0] = room /\ \A i \in 1..n : f[i] = Next1(f[i - 1])
  <2> HIDE DEF G, Next1
  <2>1. \A i \in 1..n : i - 1 \in 0..n
    OBVIOUS
  <2>2. QED
    BY <1>1, <1>2, <2>1 DEF FoldOf
<1>4. ASSUME NEW i \in Nat, i <= n PROVE Good(i, f[i])
  <2> DEFINE T == {k \in Nat : k <= n => Good(k, f[k])}
  <2>1. 0 \in T
    BY <1>3
  <2>2. ASSUME NEW k \in Nat, k \in T PROVE k + 1 \in T
    <3>1. SUFFICES ASSUME k + 1 <= n PROVE Good(k + 1, f[k + 1])
      OBVIOUS
    <3>2. Good(k, f[k]) /\ k + 1 \in 1..n /\ (k + 1) - 1 = k
      BY <2>2, <3>1
    <3>3. f[k + 1] = Next1(f[k])
      BY <1>3, <3>2
    <3>4. \A x : Good(k, x) => Good(k + 1, Next1(x))
      BY <3>2
    <3>5. QED
      BY <3>2, <3>3, <3>4
  <2>3. Nat \subseteq T
    <3> HIDE DEF T
    <3>1. QED
      BY <2>1, <2>2, InductiveSet
  <2>4. QED
    BY <1>4, <2>3
<1>5. F(f)
  <2>1. f = [i \in 0..n |-> f[i]]
    BY <1>3
  <2>2. ASSUME NEW i \in 0..n
        PROVE  f[i] = IF i = 0 THEN room
                      ELSE IF n <= f[i - 1] THEN f[i - 1] ELSE 2 * f[i - 1]
    <3>1. i = 0 \/ i \in 1..n
      OBVIOUS
    <3>2. QED
      BY <1>3, <3>1
  <2>3. QED
    BY <2>1, <2>2
<1>6. ASSUME NEW g, F(g) PROVE g = f
  <2>1. DOMAIN g = 0..n /\ g = [i \in 0..n |-> g[i]] /\ g[0] = room
    BY <1>6
  <2>2. ASSUME NEW i \in 0..n - 1, g[i] = f[i] PROVE g[i + 1] = f[i + 1]
    <3>1. i + 1 \in 0..n /\ i + 1 \in 1..n /\ (i + 1) - 1 = i /\ i + 1 # 0
      OBVIOUS
    <3>2. g[i + 1] = Next1(g[i])
      BY <1>6, <3>1
    <3>3. f[i + 1] = Next1(f[i])
      BY <1>3, <3>1
    <3>4. QED
      BY <2>2, <3>2, <3>3
  <2>3. GoAlike(g, f, n)
    BY <1>3, <2>1, <2>2 DEF GoAlike
  <2>4. \A i \in 0..n : g[i] = f[i]
    BY <2>3, FoldUnique
  <2>5. QED
    BY <1>3, <2>1, <2>4
<1>7. Room(n, room) = f[n]
  <2>1. Room(n, room) = (CHOOSE g : F(g))[n]
    BY DEF Room
  <2>2. (CHOOSE g : F(g)) = f
    <3> HIDE DEF F
    <3>1. QED
      BY <1>5, <1>6
  <2>3. QED
    BY <2>1, <2>2
<1>8. Good(n, f[n])
  BY <1>4
<1>9. QED
  BY <1>7, <1>8

\* What stays in the vector.
LEMMA KeptFacts ==
  ASSUME NEW nodes, Vector(nodes)
  PROVE  /\ Vector(Kept(nodes)) /\ Len(Kept(nodes)) <= Len(nodes)
         /\ \A i \in 1..Len(Kept(nodes)) : \E j \in 1..Len(nodes) : Kept(nodes)[i] = nodes[j]
<1> DEFINE n == Len(nodes)
           S == Seq(AllNodes)
           Next1(x, i) == IF Deleted(nodes[i]) THEN x ELSE Append(x, nodes[i])
           G == [s \in S \X (1..n) |-> Next1(s[1], s[2])]
           Good(k, x) ==
             /\ x \in S /\ Len(x) <= k
             /\ k >= 1 => Len(x) >= 1 /\ x[1] = Db
             /\ k >= 2 => Len(x) >= 2 /\ x[2] = Listen
             /\ \A i \in 3..Len(x) : x[i] \in Conns
             /\ \A i, j \in 1..Len(x) : x[i] = x[j] => i = j
             /\ \A i \in 1..Len(x) : \E j \in 1..k : x[i] = nodes[j]
           F(f) == f = [i \in 0..n |-> IF i = 0 THEN <<>> ELSE Next1(f[i - 1], i)]
<1>1. /\ n \in Nat /\ n >= 2 /\ nodes[1] = Db /\ nodes[2] = Listen
      /\ \A i \in 1..n : nodes[i] \in AllNodes
      /\ \A i \in 3..n : nodes[i] \in Conns
      /\ \A i, j \in 1..n : nodes[i] = nodes[j] => i = j
  BY LenProperties DEF Vector
<1> HIDE DEF n
<1>2. \A x \in S, i \in 1..n : Next1(x, i) \in S
  BY <1>1
<1>3. /\ G \in [S \X (1..n) -> S]
      /\ \A x \in S, i \in 1..n : G[<<x, i>>] = Next1(x, i)
  <2> HIDE DEF S, Next1
  <2>1. QED
    BY <1>2
<1>4. Good(0, <<>>)
  <2>1. <<>> \in S /\ Len(<<>>) = 0
    OBVIOUS
  <2>2. QED
    BY <2>1
<1>5. ASSUME NEW k \in 0..n - 1, NEW x, Good(k, x) PROVE Good(k + 1, Next1(x, k + 1))
  <2>1. k + 1 \in 1..n /\ nodes[k + 1] \in AllNodes /\ k \in Nat /\ 1..k \subseteq 1..k + 1
    BY <1>1
  <2>2. CASE Deleted(nodes[k + 1])
    <3>1. Next1(x, k + 1) = x /\ nodes[k + 1] \in Conns
      BY <2>2 DEF Deleted
    <3>2. k + 1 # 1 /\ k + 1 # 2
      BY <1>1, <3>1, SocketMgrConstants
    <3>3. k >= 2 /\ k >= 1
      BY <2>1, <3>2
    <3>4. Len(x) \in Nat /\ Len(x) <= k
      BY <1>5, LenProperties
    <3> HIDE DEF Next1
    <3>5. \A i \in 1..Len(x) : \E j \in 1..k + 1 : x[i] = nodes[j]
      BY <1>5, <2>1
    <3>6. Good(k + 1, x)
      BY <1>5, <2>1, <3>3, <3>4, <3>5
    <3> HIDE DEF Good
    <3>7. QED
      BY <3>1, <3>6
  <2>3. CASE ~Deleted(nodes[k + 1])
    <3> DEFINE y == Append(x, nodes[k + 1])
               l == Len(x)
    <3>1. Next1(x, k + 1) = y
      BY <2>3
    <3>2. /\ y \in S /\ l \in Nat /\ Len(y) = l + 1
          /\ \A i \in 1..l : y[i] = x[i]
          /\ y[l + 1] = nodes[k + 1]
      BY <1>5, <2>1, AppendFacts
    <3>3. l <= k /\ (k >= 1 => l >= 1 /\ x[1] = Db) /\ (k >= 2 => l >= 2 /\ x[2] = Listen)
      BY <1>5
    <3>4. /\ \A i \in 3..l : x[i] \in Conns
          /\ \A i, j \in 1..l : x[i] = x[j] => i = j
          /\ \A i \in 1..l : \E j \in 1..k : x[i] = nodes[j]
      BY <1>5
    <3> HIDE DEF y, l, Next1, Good
    <3>5. (k = 0 /\ l = 0) \/ (k = 1 /\ l = 1) \/ (k >= 2 /\ l >= 2)
      BY <2>1, <3>2, <3>3
    <3>6. /\ Len(y) <= k + 1 /\ Len(y) >= 1 /\ y[1] = Db
          /\ k + 1 >= 2 => Len(y) >= 2 /\ y[2] = Listen
      BY <1>1, <2>1, <3>2, <3>3, <3>5
    <3>7. ASSUME NEW i \in 3..l + 1 PROVE y[i] \in Conns
      <4>1. CASE i = l + 1
        <5>1. k + 1 \in 3..n
          BY <2>1, <3>2, <3>5, <4>1
        <5>2. QED
          BY <1>1, <3>2, <4>1, <5>1
      <4>2. CASE i \in 3..l
        <5>1. i \in 1..l
          BY <4>2
        <5>2. QED
          BY <3>2, <3>4, <4>2, <5>1
      <4>3. QED
        BY <3>2, <4>1, <4>2
    <3>8. ASSUME NEW i \in 1..l PROVE y[i] # y[l + 1]
      <4>1. PICK j \in 1..k : x[i] = nodes[j]
        BY <3>4
      <4>2. j \in 1..n /\ j # k + 1
        BY <1>1, <2>1
      <4>3. nodes[j] # nodes[k + 1]
        BY <1>1, <2>1, <4>2
      <4>4. QED
        BY <3>2, <4>1, <4>3
    <3>9. ASSUME NEW i \in 1..l + 1, NEW j \in 1..l + 1, y[i] = y[j] PROVE i = j
      <4>1. (i = l + 1 \/ i \in 1..l) /\ (j = l + 1 \/ j \in 1..l)
        BY <3>2
      <4>2. QED
        BY <3>2, <3>4, <3>8, <3>9, <4>1
    <3>10. ASSUME NEW i \in 1..l + 1 PROVE \E j \in 1..k + 1 : y[i] = nodes[j]
      <4>1. CASE i = l + 1
        <5>1. k + 1 \in 1..k + 1
          BY <2>1
        <5>2. QED
          BY <3>2, <4>1, <5>1
      <4>2. CASE i \in 1..l
        BY <2>1, <3>2, <3>4, <4>2
      <4>3. QED
        BY <3>2, <4>1, <4>2
    <3>11. Good(k + 1, y)
      BY <3>2, <3>6, <3>7, <3>9, <3>10 DEF Good
    <3>12. QED
      BY <3>1, <3>11
  <2>4. QED
    BY <2>2, <2>3
<1>6. PICK f : FoldOf(f, n, S, <<>>, G)
  <2>1. <<>> \in S
    OBVIOUS
  <2> HIDE DEF S, G
  <2>2. QED
    BY <1>1, <1>3, <2>1, FoldExists
<1>7. /\ f \in [0..n -> S] /\ f[0] = <<>>
      /\ \A i \in 1..n : f[i] = Next1(f[i - 1], i)
  <2> HIDE DEF S, G, Next1
  <2>1. \A i \in 1..n : i - 1 \in 0..n
    BY <1>1
  <2>2. QED
    BY <1>3, <1>6, <2>1 DEF FoldOf
<1>8. \A i \in 0..n : Good(i, f[i])
  <2> HIDE DEF Good, Next1
  <2> DEFINE T == {i \in Nat : i <= n => Good(i, f[i])}
  <2>1. 0 \in T
    BY <1>4, <1>7
  <2>2. ASSUME NEW i \in Nat, i \in T PROVE i + 1 \in T
    <3>1. SUFFICES ASSUME i + 1 <= n PROVE Good(i + 1, f[i + 1])
      OBVIOUS
    <3>2. i <= n /\ i \in 0..n - 1 /\ i + 1 \in 1..n /\ (i + 1) - 1 = i
      BY <1>1, <3>1
    <3>3. Good(i, f[i]) /\ f[i + 1] = Next1(f[i], i + 1)
      BY <1>7, <2>2, <3>2
    <3>4. QED
      BY <1>5, <3>2, <3>3
  <2>3. Nat \subseteq T
    <3> HIDE DEF T
    <3>1. QED
      BY <2>1, <2>2, InductiveSet
  <2>4. QED
    BY <1>1, <2>3
<1>9. F(f)
  <2> HIDE DEF Next1
  <2>1. f = [i \in 0..n |-> f[i]]
    BY <1>7
  <2>2. ASSUME NEW i \in 0..n
        PROVE  f[i] = IF i = 0 THEN <<>> ELSE Next1(f[i - 1], i)
    <3>1. i = 0 \/ i \in 1..n
      BY <1>1
    <3>2. QED
      BY <1>7, <3>1
  <2>3. QED
    BY <2>1, <2>2
<1>10. ASSUME NEW g, F(g) PROVE g = f
  <2> HIDE DEF Next1
  <2>1. DOMAIN g = 0..n /\ g = [i \in 0..n |-> g[i]] /\ g[0] = <<>>
    BY <1>1, <1>10
  <2>2. ASSUME NEW i \in 0..n - 1, g[i] = f[i] PROVE g[i + 1] = f[i + 1]
    <3>1. i + 1 \in 0..n /\ i + 1 \in 1..n /\ (i + 1) - 1 = i /\ i + 1 # 0
      BY <1>1
    <3>2. g[i + 1] = Next1(g[i], i + 1)
      BY <1>10, <3>1
    <3>3. f[i + 1] = Next1(f[i], i + 1)
      BY <1>7, <3>1
    <3>4. QED
      BY <2>2, <3>2, <3>3
  <2>3. GoAlike(g, f, n)
    BY <1>7, <2>1, <2>2 DEF GoAlike
  <2>4. \A i \in 0..n : g[i] = f[i]
    BY <1>1, <2>3, FoldUnique
  <2>5. QED
    BY <1>7, <2>1, <2>4
<1>11. Kept(nodes) = f[n]
  <2>1. Kept(nodes) = (CHOOSE g : F(g))[n]
    BY DEF Kept, n
  <2>2. (CHOOSE g : F(g)) = f
    <3> HIDE DEF F
    <3>1. QED
      BY <1>9, <1>10
  <2>3. QED
    BY <2>1, <2>2
<1>12. Good(n, Kept(nodes))
  <2> HIDE DEF Good
  <2>1. n \in 0..n
    BY <1>1
  <2>2. QED
    BY <1>8, <1>11, <2>1
<1>13. QED
  BY <1>1, <1>12 DEF Vector, n

LEMMA NumConnsType ==
  ASSUME NEW nodes PROVE NumConns(nodes) \in Nat
<1>1. IsFiniteSet(Range(nodes) \cap Conns)
  BY SocketMgrConstants, FS_Subset
<1>2. QED
  BY <1>1, FS_CardinalityType DEF NumConns

\* The elements of a vector that are connections, when there are three.
LEMMA ThreeConns ==
  ASSUME NEW nodes, Vector(nodes), Len(nodes) >= 5
  PROVE  NumConns(nodes) \in Nat /\ NumConns(nodes) >= 3
<1> DEFINE R == Range(nodes) \cap Conns
           A == {nodes[3]}
           B == A \cup {nodes[4]}
           C == B \cup {nodes[5]}
<1>1. /\ Len(nodes) \in Nat /\ DOMAIN nodes = 1..Len(nodes)
      /\ 3 \in 3..Len(nodes) /\ 4 \in 3..Len(nodes) /\ 5 \in 3..Len(nodes)
      /\ 3 \in 1..Len(nodes) /\ 4 \in 1..Len(nodes) /\ 5 \in 1..Len(nodes)
  BY LenProperties DEF Vector
<1>2. IsFiniteSet(R)
  BY SocketMgrConstants, FS_Subset
<1>3. C \subseteq R
  BY <1>1 DEF Vector, Range
<1>4. nodes[3] # nodes[4] /\ nodes[3] # nodes[5] /\ nodes[4] # nodes[5]
  BY <1>1 DEF Vector
<1>5. IsFiniteSet(A) /\ Cardinality(A) = 1
  BY FS_Singleton
<1>6. IsFiniteSet(B) /\ Cardinality(B) = 2
  <2>1. nodes[4] \notin A
    BY <1>4
  <2> HIDE DEF A
  <2>2. QED
    BY <1>5, <2>1, FS_AddElement
<1>7. IsFiniteSet(C) /\ Cardinality(C) = 3
  <2>1. nodes[5] \notin B
    BY <1>4
  <2> HIDE DEF B
  <2>2. QED
    BY <1>6, <2>1, FS_AddElement
<1>8. Cardinality(R) \in Nat /\ Cardinality(C) <= Cardinality(R)
  <2> HIDE DEF C, R
  <2>1. QED
    BY <1>2, <1>3, FS_Subset, FS_CardinalityType
<1>9. QED
  BY <1>7, <1>8 DEF NumConns

\* The connections that are accepted are appended.
LEMMA AcceptedFacts ==
  ASSUME MgrInv, NEW new \in SetToSeqs({c \in Conns : sock[c] = "backlog"})
  PROVE  /\ Vector(m_node \o new)
         /\ \A i \in 3..Len(m_node \o new) :
              \/ sock[(m_node \o new)[i]] = "backlog"
              \/ sock[(m_node \o new)[i]] \notin {"none", "backlog"}
<1> DEFINE W == {c \in Conns : sock[c] = "backlog"}
           m == Len(m_node)
           n == Cardinality(W)
           nodes == m_node \o new
<1>1. n \in Nat
  <2>1. IsFiniteSet(W)
    BY SocketMgrConstants, FS_Subset
  <2>2. QED
    BY <2>1, FS_CardinalityType
<1>2. new \in [1..n -> W] /\ \A i, j \in 1..n : i # j => new[i] # new[j]
  BY DEF SetToSeqs
<1>3. new \in Seq(W) /\ Len(new) = n
  <2> HIDE DEF n, W
  <2>1. QED
    BY <1>1, <1>2, SeqDef, LenProperties
<1>4. /\ m_node \in Seq(AllNodes) /\ m \in Nat /\ m >= 2
      /\ m_node[1] = Db /\ m_node[2] = Listen
      /\ \A i \in 3..m : m_node[i] \in Conns /\ sock[m_node[i]] \notin {"none", "backlog"}
      /\ \A i, j \in 1..m : m_node[i] = m_node[j] => i = j
  BY LenProperties DEF MgrInv, Vector
<1>5. new \in Seq(AllNodes)
  BY <1>3 DEF AllNodes
<1>6. /\ nodes \in Seq(AllNodes) /\ Len(nodes) = m + n
      /\ \A i \in 1..m : nodes[i] = m_node[i]
      /\ \A i \in 1..n : nodes[m + i] = new[i]
  <2>1. /\ nodes \in Seq(AllNodes) /\ Len(nodes) = m + Len(new)
        /\ \A i \in 1..m : nodes[i] = m_node[i]
        /\ \A i \in 1..Len(new) : nodes[m + i] = new[i]
    BY <1>4, <1>5, ConcatFacts
  <2> HIDE DEF m, n, nodes
  <2>2. QED
    BY <1>3, <2>1
<1> HIDE DEF m, n, nodes
<1>7. \A i \in 1..m + n : i \in 1..m \/ (i - m \in 1..n /\ m + (i - m) = i)
  BY <1>1, <1>4
<1>8. ASSUME NEW i \in 1..n
      PROVE  nodes[m + i] \in Conns /\ sock[nodes[m + i]] = "backlog"
  BY <1>2, <1>6
<1>9. ASSUME NEW i \in 3..m + n
      PROVE  nodes[i] \in Conns /\ \/ sock[nodes[i]] = "backlog"
                                   \/ sock[nodes[i]] \notin {"none", "backlog"}
  <2>1. CASE i \in 1..m
    <3>1. i \in 3..m
      BY <1>4, <2>1
    <3>2. QED
      BY <1>4, <1>6, <2>1, <3>1
  <2>2. CASE i - m \in 1..n /\ m + (i - m) = i
    BY <1>8, <2>2
  <2>3. i \in 1..m + n
    BY <1>1, <1>4
  <2>4. QED
    BY <1>7, <2>1, <2>2, <2>3
<1>10. ASSUME NEW i \in 1..m, NEW j \in 1..n PROVE nodes[i] # nodes[m + j]
  <2>1. CASE i \in 3..m
    BY <1>4, <1>6, <1>8, <2>1
  <2>2. CASE i = 1 \/ i = 2
    BY <1>4, <1>6, <1>8, <2>2, SocketMgrConstants
  <2>3. i \in 3..m \/ i = 1 \/ i = 2
    BY <1>4
  <2>4. QED
    BY <2>1, <2>2, <2>3
<1>11. ASSUME NEW i \in 1..m + n, NEW j \in 1..m + n, nodes[i] = nodes[j]
       PROVE  i = j
  <2>1. CASE i \in 1..m /\ j \in 1..m
    BY <1>4, <1>6, <1>11, <2>1
  <2>2. CASE i - m \in 1..n /\ j - m \in 1..n
    <3>1. new[i - m] = new[j - m]
      <4>1. \A k \in 1..m + n : k - m \in 1..n => nodes[k] = new[k - m]
        <5>1. ASSUME NEW k \in 1..m + n, k - m \in 1..n PROVE nodes[k] = new[k - m]
          <6>1. nodes[m + (k - m)] = new[k - m] /\ m + (k - m) = k
            BY <1>1, <1>4, <1>6, <5>1
          <6>2. QED
            BY <6>1
        <5>2. QED
          BY <5>1
      <4>2. QED
        BY <1>11, <2>2, <4>1
    <3>2. i - m = j - m
      BY <1>2, <2>2, <3>1
    <3>3. QED
      BY <1>4, <3>2
  <2>3. QED
    BY <1>7, <1>10, <1>11, <2>1, <2>2
<1>12. /\ nodes[1] = Db /\ nodes[2] = Listen /\ Len(nodes) >= 2
  <2>1. 1 \in 1..m /\ 2 \in 1..m /\ m + n >= 2
    BY <1>1, <1>4
  <2>2. QED
    BY <1>4, <1>6, <2>1
<1>13. QED
  BY <1>6, <1>9, <1>11, <1>12 DEF Vector, nodes

LEMMA MgrStarts == MgrInit => MgrInv
<1> SUFFICES ASSUME MgrInit PROVE MgrInv
  OBVIOUS
<1>1. <<Db, Listen>> \in Seq(AllNodes) /\ Len(<<Db, Listen>>) = 2
      /\ <<Db, Listen>>[1] = Db /\ <<Db, Listen>>[2] = Listen
  BY DEF AllNodes
<1>2. Vector(<<Db, Listen>>)
  <2>1. \A i \in 1..2 : i = 1 \/ i = 2
    OBVIOUS
  <2>2. \A i \in 3..2 : FALSE
    OBVIOUS
  <2>3. QED
    BY <1>1, <2>1, <2>2, SocketMgrConstants DEF Vector
<1>3. m_node = <<Db, Listen>> /\ Len(m_node) = 2 /\ \A i \in 3..Len(m_node) : FALSE
  BY <1>1 DEF MgrInit
<1>4. MgrTypes
  BY DEF MgrInit, MgrTypes, States
<1>5. QED
  BY <1>2, <1>3, <1>4 DEF MgrInit, MgrInv, Roomy

\* One step of the loop, or of the world around it.
LEMMA MgrStep == MgrInv /\ [MgrNext]_mgrVars => MgrInv'
<1>0. SUFFICES ASSUME MgrInv, [MgrNext]_mgrVars PROVE MgrInv'
  OBVIOUS
<1> USE DEF MgrInv, Roomy
<1>1. CASE BeginPass
  <2>1. MgrTypes'
    BY <1>0, <1>1 DEF BeginPass, MgrTypes
  <2>2. QED
    BY <1>0, <1>1, <2>1 DEF BeginPass
<1>2. ASSUME Visited, pos <= Len(pass)
      PROVE  /\ pos' \in Nat \ {0} /\ pos' = pos + 1
             /\ pass' = pass /\ crashed' = crashed
             /\ pos <= Len(pass) /\ pass # <<>> /\ (touched' => peak >= 3)
  <2>1. touched' <=> touched \/ moved
    BY <1>2, Zenon DEF Visited
  <2>2. pos' = pos + 1 /\ pass' = pass /\ crashed' = crashed
    BY <1>2 DEF Visited
  <2>3. pos \in Nat \ {0} /\ (pass # <<>> => Len(pass) \in Nat)
    BY <1>0, LenProperties DEF MgrTypes, Vector
  <2>4. pass # <<>>
    BY <1>2, <2>3
  <2>5. touched \/ moved => peak >= 3
    <3>1. moved => pos > 2 /\ (Len(pass) = 2 \/ peak >= 3)
      BY <1>0
    <3>2. pos <= Len(pass)
      BY <1>2
    <3> DEFINE l == Len(pass)
    <3>3. l \in Nat /\ pos <= l /\ (moved => pos > 2 /\ (l = 2 \/ peak >= 3))
      BY <2>3, <2>4, <3>1, <3>2
    <3> HIDE DEF l
    <3>4. moved => peak >= 3
      BY <2>3, <3>3
    <3>5. QED
      BY <1>0, <3>4
  <2>6. QED
    BY <1>2, <2>1, <2>2, <2>3, <2>4, <2>5
<1>3. CASE RunDb
  <2>1. Visited /\ pos <= Len(pass) /\ UNCHANGED <<m_node, capacity, moved, sock, served, peak>>
    BY <1>3 DEF RunDb, Visiting
  <2>2. /\ pos' \in Nat \ {0} /\ pos' = pos + 1 /\ pass' = pass /\ pass # <<>>
        /\ touched' => peak >= 3
    BY <1>2, <2>1
  <2>3. MgrTypes'
    BY <1>0, <2>1, <2>2 DEF MgrTypes
  <2>4. moved' => pos' > 2
    BY <1>0, <2>1, <2>2 DEF MgrTypes
  <2>5. QED
    BY <1>0, <2>1, <2>2, <2>3, <2>4
<1>4. CASE RunListener
  <2>1. Visiting(Listen) /\ Visited
    BY <1>0, <1>4 DEF RunListener
  <2>2. pass # <<>> /\ pos = 2 /\ pos <= Len(pass) /\ Vector(pass)
    <3>1. pass # <<>> /\ pos \in 1..Len(pass) /\ pass[pos] = Listen
      BY <1>0, <2>1 DEF Visiting, MgrTypes
    <3>2. Vector(pass) /\ 2 \in 1..Len(pass) /\ pass[2] = Listen
      BY <1>0, <3>1, LenProperties DEF Vector
    <3>3. pos = 2
      BY <1>0, <3>1, <3>2 DEF Vector
    <3>4. QED
      BY <1>0, <3>1, <3>2, <3>3
  <2>3. ~moved
    BY <1>0, <2>2 DEF MgrTypes
  <2>4. pass' = pass /\ pos' = 3 /\ (touched' <=> touched)
    <3>1. touched' <=> touched \/ moved
      BY <2>1, Zenon DEF Visited
    <3>2. pass' = pass /\ pos' = pos + 1
      BY <2>1 DEF Visited
    <3>3. QED
      BY <2>2, <2>3, <3>1, <3>2
  <2>5. PICK new \in SetToSeqs({c \in Conns : sock[c] = "backlog"}) :
       /\ m_node' = m_node \o new
       /\ capacity' = Room(Len(m_node'), capacity)
       /\ moved' <=> moved \/ capacity' # capacity
       /\ sock' = [c \in Conns |-> IF sock[c] = "backlog" THEN "open"
                                   ELSE sock[c]]
       /\ peak' = IF NumConns(m_node') > peak THEN NumConns(m_node') ELSE peak
    BY <1>0, <1>4 DEF RunListener
  <2>6. Vector(m_node') /\ \A i \in 3..Len(m_node') : sock'[m_node'[i]] \notin {"none", "backlog"}
    <3>1. /\ Vector(m_node')
          /\ \A i \in 3..Len(m_node') : \/ sock[m_node'[i]] = "backlog"
                                        \/ sock[m_node'[i]] \notin {"none", "backlog"}
      BY <1>0, <2>5, AcceptedFacts
    <3>2. ASSUME NEW i \in 3..Len(m_node') PROVE sock'[m_node'[i]] \notin {"none", "backlog"}
      <4>1. m_node'[i] \in Conns
        BY <1>0, <3>1 DEF Vector
      <4>2. QED
        BY <1>0, <2>5, <3>1, <4>1
    <3>3. QED
      BY <1>0, <3>1, <3>2
  <2>7. /\ Len(m_node') \in Nat /\ capacity' \in Nat /\ capacity' >= capacity
        /\ Len(m_node') <= capacity => capacity' = capacity
        /\ Len(m_node') > capacity => capacity' >= 4
    <3>1. Len(m_node') \in Nat /\ capacity \in Nat /\ capacity >= 2
      BY <1>0, <2>6, LenProperties DEF Vector, MgrTypes
    <3>2. QED
      BY <1>0, <2>5, <3>1, RoomFacts
  <2>8. Len(m_node') > 2 => capacity' >= 4
    BY <1>0, <2>7 DEF MgrTypes
  <2>9. Len(pass) > 2 => capacity' >= 4
    BY <1>0, <2>2, <2>7 DEF MgrTypes
  <2>10. peak' \in Nat /\ peak' >= peak /\ peak' >= NumConns(m_node')
    BY <1>0, <2>5, NumConnsType DEF MgrTypes
  <2>11. moved' => Len(pass) = 2 \/ peak' >= 3
    <3>1. SUFFICES ASSUME moved', Len(pass) # 2 PROVE peak' >= 3
      OBVIOUS
    <3>2. Len(pass) > 2 /\ capacity >= 4
      <4>1. Len(pass) \in Nat /\ Len(pass) >= 2
        BY <1>0, <2>2, LenProperties DEF Vector
      <4>2. Len(pass) > 2
        <5> DEFINE l == Len(pass)
        <5>1. l \in Nat /\ l >= 2 /\ l # 2
          BY <3>1, <4>1
        <5> HIDE DEF l
        <5>2. l > 2
          BY <5>1
        <5>3. QED
          BY <5>2 DEF l
      <4>3. QED
        BY <1>0, <2>2, <4>2
    <3>3. Len(m_node') > capacity
      BY <1>0, <2>3, <2>5, <2>7, <3>1 DEF MgrTypes
    <3>4. Len(m_node') >= 5
      BY <1>0, <2>7, <3>2, <3>3 DEF MgrTypes
    <3>5. NumConns(m_node') \in Nat /\ NumConns(m_node') >= 3
      BY <1>0, <2>6, <3>4, ThreeConns
    <3>6. QED
      BY <1>0, <2>10, <3>5
  <2>12. sock' \in [Conns -> States]
    BY <1>0, <2>5 DEF MgrTypes, States
  <2>13. touched' => peak' >= 3
    BY <1>0, <2>4, <2>10 DEF MgrTypes
  <2>14. MgrTypes'
    BY <1>0, <2>4, <2>7, <2>10, <2>12 DEF MgrTypes
  <2>15. pass' # <<>> /\ Vector(pass') /\ (Len(pass') > 2 => capacity' >= 4)
    BY <1>0, <2>2, <2>4, <2>9
  <2>16. capacity' = 2 \/ capacity' >= 4
    BY <1>0, <2>7 DEF MgrTypes
  <2>17. moved' => pos' > 2 /\ (Len(pass') = 2 \/ peak' >= 3)
    BY <1>0, <2>4, <2>11
  <2>18. QED
    BY <1>0, <2>6, <2>8, <2>13, <2>14, <2>15, <2>16, <2>17
<1>5. ASSUME NEW c \in Conns, RunConn(c) PROVE MgrInv'
  <2>1. Visited /\ UNCHANGED <<m_node, capacity, moved, peak>> /\ pos <= Len(pass)
        /\ sock' = [sock EXCEPT ![c] = CASE @ = "lost" -> "closed"
                                          [] @ = "closed" -> "deleted"
                                          [] OTHER -> @]
    BY <1>0, <1>5 DEF RunConn, Visiting
  <2>2. /\ pos' \in Nat \ {0} /\ pos' = pos + 1 /\ pass' = pass /\ pass # <<>>
        /\ touched' => peak >= 3
    BY <1>2, <2>1
  <2>3. sock' \in [Conns -> States]
        /\ \A d \in Conns : sock[d] \notin {"none", "backlog"}
                           => sock'[d] \notin {"none", "backlog"}
    <3>1. sock[c] = "lost" \/ sock[c] = "closed" \/ sock[c] \notin {"lost", "closed"}
      OBVIOUS
    <3>2. sock' \in {[sock EXCEPT ![c] = "closed"], [sock EXCEPT ![c] = "deleted"], sock}
          /\ (sock' # sock => sock[c] \in {"lost", "closed"})
      BY <1>0, <2>1, <3>1, Zenon DEF MgrTypes
    <3>3. QED
      BY <1>0, <3>2 DEF MgrTypes, States
  <2>4. \A i \in 3..Len(m_node') : sock'[m_node'[i]] \notin {"none", "backlog"}
    BY <1>0, <2>1, <2>3 DEF Vector
  <2>5. MgrTypes'
    BY <1>0, <2>1, <2>3, <2>2 DEF MgrTypes
  <2>6. moved' => pos' > 2
    BY <1>0, <2>1, <2>2 DEF MgrTypes
  <2>7. QED
    BY <1>0, <2>1, <2>4, <2>5, <2>6, <2>2
<1>6. CASE EndPass
  <2>1. /\ m_node' = Kept(m_node) /\ pass' = <<>> /\ pos' = 1 /\ moved' = FALSE
        /\ UNCHANGED <<capacity, sock, touched, peak>>
    BY <1>0, <1>6 DEF EndPass
  <2>2. /\ Vector(m_node') /\ Len(m_node') <= Len(m_node)
        /\ \A i \in 1..Len(m_node') : \E j \in 1..Len(m_node) : m_node'[i] = m_node[j]
    BY <1>0, <2>1, KeptFacts
  <2>3. Len(m_node) \in Nat /\ Len(m_node') \in Nat
    BY <1>0, <2>2, LenProperties DEF Vector
  <2>4. ASSUME NEW i \in 3..Len(m_node') PROVE sock[m_node'[i]] \notin {"none", "backlog"}
    <3>1. i \in 1..Len(m_node') /\ m_node'[i] \in Conns
      BY <1>0, <2>2, <2>3 DEF Vector
    <3>2. PICK j \in 1..Len(m_node) : m_node'[i] = m_node[j]
      BY <1>0, <2>2, <3>1
    <3>3. j # 1 /\ j # 2
      BY <1>0, <3>1, <3>2, SocketMgrConstants DEF Vector
    <3>4. j \in 3..Len(m_node)
      BY <1>0, <2>3, <3>3
    <3>5. QED
      BY <1>0, <3>2, <3>4
  <2>5. MgrTypes'
    BY <1>0, <2>1 DEF MgrTypes
  <2>6. Len(m_node') > 2 => capacity' >= 4
    BY <1>0, <2>1, <2>2, <2>3
  <2>7. QED
    BY <1>0, <2>1, <2>2, <2>4, <2>5, <2>6
<1>7. CASE ReadGarbage
  <2>1. pos <= Len(pass) /\ moved /\ touched' = TRUE
        /\ UNCHANGED <<m_node, capacity, pass, pos, moved, sock, peak>>
    BY <1>0, <1>7 DEF ReadGarbage
  <2>2. peak >= 3
    <3> DEFINE l == Len(pass)
    <3>1. pos <= l /\ pos > 2 /\ (l = 2 \/ peak >= 3) /\ pos \in Nat
      BY <1>0, <2>1 DEF MgrTypes
    <3> HIDE DEF l
    <3>2. QED
      BY <3>1
  <2>3. MgrTypes'
    BY <1>0, <2>1 DEF MgrTypes
  <2>4. QED
    BY <1>0, <2>1, <2>2, <2>3
<1>8. ASSUME NEW c \in Conns, Connects(c) \/ Loses(c) PROVE MgrInv'
  <2>1. UNCHANGED <<m_node, capacity, pass, pos, moved, touched, peak>>
    BY <1>0, <1>8 DEF Connects, Loses
  <2>2. /\ sock' \in [Conns -> States]
        /\ \A d \in Conns : sock[d] \notin {"none", "backlog"}
                           => sock'[d] \notin {"none", "backlog"}
    BY <1>0, <1>8 DEF Connects, Loses, MgrTypes, States
  <2>3. \A i \in 3..Len(m_node') : sock'[m_node'[i]] \notin {"none", "backlog"}
    BY <1>0, <2>1, <2>2 DEF Vector
  <2>4. MgrTypes'
    BY <1>0, <2>1, <2>2 DEF MgrTypes
  <2>5. QED
    BY <1>0, <2>1, <2>3, <2>4
<1>9. CASE UNCHANGED mgrVars
  <2>1. MgrTypes'
    BY <1>0, <1>9 DEF mgrVars, MgrTypes
  <2>2. QED
    BY <1>0, <1>9, <2>1 DEF mgrVars
<1>10. QED
  BY <1>0, <1>1, <1>3, <1>4, <1>5, <1>6, <1>7, <1>8, <1>9 DEF MgrNext, MgrLoop

\* FreedNeedsThree: the pass over m_node (SocketMgr::run) reads memory that
\* regist has freed only after three connections have stood at one time, for
\* every number of them and every order in which they come and go.
THEOREM FreedMemoryNeedsThree == MgrSpec => []FreedNeedsThree
<1>1. MgrInv => FreedNeedsThree
  BY DEF MgrInv, FreedNeedsThree
<1>2. QED
  BY <1>1, MgrStarts, MgrStep, PTL DEF MgrSpec

-----------------------------------------------------------------------------
(***************************************************************************)
(* The record on its way.                                                  *)
(***************************************************************************)
CellSet == [is : {"int", "length", "byte"}, val : Nat]
Buffers == Seq(CellSet)

\* A C string ends before its first zero byte, and is one already then.
LEMMA CStringFacts ==
  ASSUME NEW s \in Seq(Nat)
  PROVE  /\ CString(s) \in Seq(Nat) /\ Len(CString(s)) <= Len(s)
         /\ CString(CString(s)) = CString(s)
<1> DEFINE Z(q) == {i \in 1..Len(q) : q[i] = Zero}
           m == Min(Z(s))
           t == SubSeq(s, 1, m - 1)
<1>1. Len(s) \in Nat
  BY LenProperties
<1>2. ASSUME NEW q, Z(q) = {} PROVE CString(q) = q
  BY <1>2 DEF CString
<1>3. CASE Z(s) = {}
  BY <1>1, <1>2, <1>3
<1>4. CASE Z(s) # {}
  <2>1. m \in Z(s) /\ \A i \in Z(s) : m <= i
    <3>1. Z(s) \subseteq Nat
      OBVIOUS
    <3> HIDE DEF Z
    <3>2. \E x \in Z(s) : \A y \in Z(s) : x <= y
      BY <1>4, <3>1, Least
    <3>3. QED
      BY <3>2 DEF Min
  <2>2. CString(s) = t
    BY <1>4 DEF CString
  <2> HIDE DEF m
  <2>3. m \in 1..Len(s) /\ m - 1 \in Nat /\ m - 1 <= Len(s) /\ m - 1 \in 1 - 1..Len(s) /\ 1 \in 1..Len(s) + 1
    BY <1>1, <2>1
  <2>4. t \in Seq(Nat) /\ Len(t) = m - 1 /\ \A i \in 1..m - 1 : t[i] = s[i]
    <3>1. t \in Seq(Nat) /\ Len(t) = ((m - 1) - 1) + 1
      BY <2>3, SubSeqProperties
    <3>2. \A i \in 1..((m - 1) - 1) + 1 : t[i] = s[(1 + i) - 1]
      BY <2>3, SubSeqProperties
    <3> HIDE DEF t
    <3>3. QED
      BY <2>3, <3>1, <3>2
  <2> HIDE DEF t
  <2>5. Z(t) = {}
    <3>1. ASSUME NEW i \in 1..Len(t), t[i] = Zero PROVE FALSE
      <4>1. i \in 1..Len(s) /\ s[i] = Zero /\ i < m
        BY <1>1, <2>3, <2>4, <3>1
      <4>2. QED
        BY <2>1, <2>3, <4>1
    <3>2. QED
      BY <3>1
  <2>6. CString(t) = t
    BY <1>2, <2>5
  <2>7. QED
    BY <2>2, <2>3, <2>4, <2>6
<1>5. QED
  BY <1>3, <1>4

\* What of a string the length that is written leaves.
Cut(s) == [i \in 1..Len(s) % Modulus |-> s[i]]

LEMMA CutFacts ==
  ASSUME NEW s \in Seq(Nat)
  PROVE  /\ Len(s) % Modulus \in Nat /\ Len(s) % Modulus <= Len(s)
         /\ Cut(s) \in Seq(Nat) /\ Len(Cut(s)) = Len(s) % Modulus
         /\ Len(Cut(s)) < Modulus
         /\ Cut(s) = SubSeq(s, 1, Len(s) % Modulus)
         /\ Len(s) < Modulus => Cut(s) = s
<1> DEFINE n == Len(s) % Modulus
<1>1. Len(s) \in Nat /\ Modulus \in Nat \ {0}
  BY LenProperties, RecordConstants
<1>2. /\ n \in Nat /\ n <= Len(s) /\ n < Modulus
      /\ Len(s) < Modulus => n = Len(s)
  BY <1>1
<1>3. \A i \in 1..n : i \in 1..Len(s) /\ s[i] \in Nat
  <2> HIDE DEF n
  <2>1. QED
    BY <1>1, <1>2
<1>4. Cut(s) \in [1..n -> Nat]
  BY <1>3 DEF Cut
<1>5. Cut(s) \in Seq(Nat) /\ Len(Cut(s)) = n
  <2> HIDE DEF n
  <2>1. QED
    BY <1>2, <1>4, SeqDef, LenProperties
<1>6. Cut(s) = SubSeq(s, 1, n)
  <2> DEFINE t == SubSeq(s, 1, n)
  <2>1. t \in Seq(Nat) /\ Len(t) = (IF 1 <= n THEN n - 1 + 1 ELSE 0)
        /\ \A i \in 1..n - 1 + 1 : t[i] = s[1 + i - 1]
    <3> HIDE DEF n
    <3>1. n \in Int /\ 1 \in Int /\ \A i \in 1..n : s[i] \in Nat
      BY <1>2, <1>3
    <3>2. QED
      BY <3>1, SubSeqProperties
  <2>2. Len(t) = n /\ \A i \in 1..n : t[i] = s[i]
    <3> HIDE DEF n, t
    <3>1. \A i \in 1..n : 1 + i - 1 = i /\ i \in 1..n - 1 + 1
      BY <1>2
    <3>2. (IF 1 <= n THEN n - 1 + 1 ELSE 0) = n
      BY <1>2
    <3>3. QED
      BY <2>1, <3>1, <3>2
  <2>3. Cut(s) = [i \in 1..n |-> s[i]]
    BY DEF Cut
  <2>4. t = [i \in 1..n |-> t[i]]
    <3> HIDE DEF n, t
    <3>1. QED
      BY <2>1, <2>2, LenProperties
  <2>5. QED
    BY <2>2, <2>3, <2>4
<1>7. ASSUME Len(s) < Modulus PROVE Cut(s) = s
  <2>1. n = Len(s)
    BY <1>2, <1>7
  <2>2. s = [i \in 1..Len(s) |-> s[i]]
    BY LenProperties
  <2>3. QED
    BY <2>1, <2>2 DEF Cut
<1>8. QED
  BY <1>2, <1>5, <1>6, <1>7

LEMMA PutIntFacts ==
  ASSUME NEW buf \in Buffers, NEW v \in Nat
  PROVE  /\ PutInt(buf, v) \in Buffers /\ Len(PutInt(buf, v)) = Len(buf) + 1
         /\ Len(buf) \in Nat
         /\ \A i \in 1..Len(buf) : PutInt(buf, v)[i] = buf[i]
         /\ PutInt(buf, v)[Len(buf) + 1].val = v
<1>1. IntCell(v) \in CellSet /\ IntCell(v).val = v
  BY DEF IntCell, CellSet
<1>2. QED
  BY <1>1, AppendFacts DEF PutInt, Buffers

\* The storage of a packet after a string was written.
LEMMA PutStringFacts ==
  ASSUME NEW buf \in Buffers, NEW s \in Seq(Nat)
  PROVE  LET new == PutString(buf, s)
         IN /\ new \in Buffers /\ Len(buf) \in Nat
            /\ Len(new) = Len(buf) + 1 + Len(Cut(s))
            /\ \A i \in 1..Len(buf) : new[i] = buf[i]
            /\ new[Len(buf) + 1].val = Len(Cut(s))
            /\ \A i \in 1..Len(Cut(s)) : new[Len(buf) + 1 + i].val = Cut(s)[i]
<1> DEFINE n == Len(s) % Modulus
           len == [is |-> "length", val |-> n]
           first == Append(buf, len)
           bytes == [i \in 1..n |-> [is |-> "byte", val |-> s[i]]]
           new == PutString(buf, s)
           l == Len(buf)
<1>1. n \in Nat /\ n = Len(Cut(s)) /\ \A i \in 1..n : s[i] \in Nat /\ Cut(s)[i] = s[i]
  <2>1. n \in Nat /\ n = Len(Cut(s)) /\ n <= Len(s) /\ Len(s) \in Nat
    BY CutFacts, LenProperties
  <2>2. \A i \in 1..n : Cut(s)[i] = s[i]
    BY DEF Cut
  <2> HIDE DEF n
  <2>3. \A i \in 1..n : i \in 1..Len(s)
    BY <2>1
  <2>4. QED
    BY <2>1, <2>2, <2>3
<1>2. new = first \o bytes
  BY DEF PutString
<1>3. len \in CellSet /\ len.val = n
  BY <1>1 DEF CellSet
<1>4. /\ first \in Seq(CellSet) /\ l \in Nat /\ Len(first) = l + 1
      /\ \A i \in 1..l : first[i] = buf[i]
      /\ first[l + 1] = len
  <2> HIDE DEF len
  <2>1. QED
    BY <1>3, AppendFacts DEF Buffers
<1>5. bytes \in Seq(CellSet) /\ Len(bytes) = n /\ \A i \in 1..n : bytes[i].val = s[i]
  <2> HIDE DEF n
  <2>1. bytes \in [1..n -> CellSet]
    BY <1>1 DEF CellSet
  <2>2. \A i \in 1..n : bytes[i].val = s[i]
    OBVIOUS
  <2> HIDE DEF bytes
  <2>3. QED
    BY <1>1, <2>1, <2>2, SeqDef, LenProperties
<1> HIDE DEF first, bytes, new, n, len, l
<1>6. /\ new \in Seq(CellSet) /\ Len(new) = Len(first) + Len(bytes)
      /\ \A i \in 1..Len(first) : new[i] = first[i]
      /\ \A i \in 1..Len(bytes) : new[Len(first) + i] = bytes[i]
  <2>1. first \in Seq(CellSet) /\ bytes \in Seq(CellSet)
    BY <1>4, <1>5
  <2>2. QED
    BY <1>2, <2>1, ConcatFacts
<1>7. Len(new) = l + 1 + n /\ l + 1 \in 1..l + 1
  BY <1>1, <1>4, <1>5, <1>6
<1>8. \A i \in 1..l : i \in 1..l + 1
  BY <1>4
<1>9. \A i \in 1..l : new[i] = buf[i]
  BY <1>4, <1>6, <1>8
<1>10. new[l + 1].val = n
  BY <1>3, <1>4, <1>6, <1>7
<1>11. \A i \in 1..n : new[l + 1 + i].val = s[i]
  BY <1>4, <1>5, <1>6
<1>12. QED
  BY <1>1, <1>4, <1>6, <1>7, <1>9, <1>10, <1>11 DEF Buffers, new, l

\* What is read where a string was written.
LEMMA GetStringFacts ==
  ASSUME NEW buf \in Buffers, NEW s \in Seq(Nat)
  PROVE  GetString(PutString(buf, s), Len(buf) + 1)
         = [ok |-> TRUE, rpos |-> Len(buf) + 2 + Len(Cut(s)), val |-> Cut(s)]
<1> DEFINE new == PutString(buf, s)
           l == Len(buf)
           n == Len(Cut(s))
<1>1. /\ l \in Nat /\ Len(new) = l + 1 + n /\ new[l + 1].val = n
      /\ \A i \in 1..n : new[l + 1 + i].val = Cut(s)[i]
  BY PutStringFacts
<1>2. n \in Nat /\ Cut(s) \in Seq(Nat)
  BY CutFacts, LenProperties
<1> HIDE DEF new, l, n
<1>3. GetInt(new, l + 1) = [ok |-> TRUE, val |-> n, rpos |-> l + 1 + 1]
  <2>1. ~(l + 1 > Len(new))
    BY <1>1, <1>2
  <2>2. QED
    BY <1>1, <2>1 DEF GetInt
<1>4. ~(l + 1 + n > Len(new)) /\ l + 1 + 1 + n = l + 2 + n
  BY <1>1, <1>2
<1>5. Cut(s) = [i \in 1..n |-> new[l + 1 + i].val]
  <2>1. Cut(s) = [i \in 1..n |-> Cut(s)[i]]
    BY <1>2, LenProperties DEF n
  <2>2. QED
    BY <1>1, <2>1
<1>6. GetString(new, l + 1) = [ok |-> TRUE, rpos |-> l + 1 + 1 + n,
                               val |-> [i \in 1..n |-> new[l + 1 + i].val]]
  <2> DEFINE g == GetInt(new, l + 1)
  <2>1. g.ok /\ g.val = n
    BY <1>3
  <2> HIDE DEF g
  <2>2. ~(l + 1 + g.val > Len(new))
    BY <1>4, <2>1
  <2>3. GetString(new, l + 1) = [ok |-> TRUE, rpos |-> l + 1 + 1 + g.val,
                                 val |-> [i \in 1..g.val |-> new[l + 1 + i].val]]
    BY <2>1, <2>2 DEF GetString, g
  <2>4. QED
    BY <2>1, <2>3
<1>7. QED
  BY <1>4, <1>5, <1>6 DEF new, l, n

Kinds == {"int", "string"}
Values == Nat \cup Seq(Nat)
Progress == [ok : BOOLEAN, rpos : Nat \ {0}, vals : Seq(Values)]
Start == [ok |-> TRUE, rpos |-> 1, vals |-> <<>>]

LEMMA BufferCells ==
  ASSUME NEW buf \in Buffers
  PROVE  /\ Len(buf) \in Nat
         /\ \A i \in 1..Len(buf) : buf[i].val \in Nat
<1>1. buf \in Seq(CellSet)
  BY DEF Buffers
<1>2. Len(buf) \in Nat /\ \A i \in 1..Len(buf) : buf[i] \in CellSet
  BY <1>1, LenProperties
<1>3. \A c \in CellSet : c.val \in Nat
  BY DEF CellSet
<1>4. QED
  BY <1>2, <1>3

LEMMA GetIntType ==
  ASSUME NEW buf \in Buffers, NEW r \in Nat \ {0}
  PROVE  LET g == GetInt(buf, r)
         IN g.ok = TRUE => g.val \in Nat /\ g.rpos = r + 1 /\ r <= Len(buf)
<1>1. Len(buf) \in Nat
  BY LenProperties DEF Buffers
<1>2. CASE r > Len(buf)
  BY <1>2 DEF GetInt, Thrown
<1>3. CASE ~(r > Len(buf))
  <2>1. r \in 1..Len(buf) /\ r <= Len(buf)
    BY <1>1, <1>3
  <2>2. buf[r].val \in Nat
    BY <2>1, BufferCells
  <2>3. QED
    BY <1>3, <2>1, <2>2 DEF GetInt
<1>4. QED
  BY <1>2, <1>3

LEMMA GetStringType ==
  ASSUME NEW buf \in Buffers, NEW r \in Nat \ {0}
  PROVE  LET g == GetString(buf, r)
         IN g.ok = TRUE => g.val \in Seq(Nat) /\ g.rpos \in Nat \ {0}
<1> DEFINE len == GetInt(buf, r)
           g == GetString(buf, r)
<1>1. Len(buf) \in Nat
  BY LenProperties DEF Buffers
<1>2. len.ok = TRUE => len.val \in Nat /\ len.rpos = r + 1 /\ r <= Len(buf)
  BY GetIntType
<1> HIDE DEF len
<1>3. CASE ~len.ok \/ r + len.val > Len(buf)
  BY <1>3 DEF GetString, len, Thrown
<1>4. CASE len.ok /\ ~(r + len.val > Len(buf))
  <2>1. g = [ok |-> TRUE, rpos |-> r + 1 + len.val,
             val |-> [i \in 1..len.val |-> buf[r + i].val]]
    BY <1>4 DEF GetString, len
  <2>2. len.ok = TRUE
    BY <1>4 DEF len, GetInt, Thrown
  <2>3. len.val \in Nat
    BY <1>2, <2>2
  <2>4. \A i \in 1..len.val : r + i \in 1..Len(buf)
    BY <1>1, <1>4, <2>3
  <2>5. \A i \in 1..len.val : buf[r + i].val \in Nat
    BY <2>4, BufferCells
  <2>6. [i \in 1..len.val |-> buf[r + i].val] \in [1..len.val -> Nat]
    BY <2>5
  <2>7. [i \in 1..len.val |-> buf[r + i].val] \in Seq(Nat)
    BY <2>3, <2>6, SeqDef
  <2>8. r + 1 + len.val \in Nat \ {0}
    BY <2>3
  <2> HIDE DEF g
  <2>9. QED
    BY <2>1, <2>7, <2>8 DEF g
<1>5. QED
  BY <1>3, <1>4

LEMMA NextFieldType ==
  ASSUME NEW buf \in Buffers, NEW x \in Progress, NEW kind \in Kinds
  PROVE  NextField(buf, x, kind) \in Progress
<1> DEFINE r == IF kind = "int" THEN GetInt(buf, x.rpos) ELSE GetString(buf, x.rpos)
<1>1. x.rpos \in Nat \ {0} /\ x.vals \in Seq(Values)
  BY DEF Progress
<1>2. r.ok = TRUE => r.val \in Values /\ r.rpos \in Nat \ {0}
  <2> DEFINE a == GetInt(buf, x.rpos)
             b == GetString(buf, x.rpos)
  <2>1. a.ok = TRUE => a.val \in Nat /\ a.rpos = x.rpos + 1
    BY <1>1, GetIntType
  <2>2. b.ok = TRUE => b.val \in Seq(Nat) /\ b.rpos \in Nat \ {0}
    BY <1>1, GetStringType
  <2>3. r = a \/ r = b
    OBVIOUS
  <2> HIDE DEF a, b, r
  <2>4. x.rpos + 1 \in Nat \ {0}
    BY <1>1
  <2>5. QED
    BY <2>1, <2>2, <2>3, <2>4 DEF Values
<1>3. r.ok \in BOOLEAN
  BY DEF GetInt, GetString, Thrown
<1> HIDE DEF r
<1>4. CASE x.ok /\ r.ok
  <2>1. NextField(buf, x, kind) = [ok |-> TRUE, rpos |-> r.rpos, vals |-> Append(x.vals, r.val)]
    BY <1>4 DEF NextField, r
  <2>2. r.ok = TRUE
    BY <1>3, <1>4
  <2>3. Append(x.vals, r.val) \in Seq(Values)
    BY <1>1, <1>2, <2>2, AppendFacts
  <2>4. QED
    BY <1>2, <2>1, <2>2, <2>3 DEF Progress
<1>5. CASE ~(x.ok /\ r.ok)
  <2>1. NextField(buf, x, kind) = [x EXCEPT !.ok = FALSE]
    BY <1>5 DEF NextField, r
  <2>2. QED
    BY <2>1 DEF Progress
<1>6. QED
  BY <1>4, <1>5

\* The reads follow each other.
LEMMA FieldsFacts ==
  ASSUME NEW buf \in Buffers, NEW kinds \in Seq(Kinds)
  PROVE  \E f : /\ f[0] = Start /\ Fields(buf, kinds) = f[Len(kinds)]
                /\ \A i \in 1..Len(kinds) : f[i] = NextField(buf, f[i - 1], kinds[i])
<1> DEFINE n == Len(kinds)
           Step(x, i) == NextField(buf, x, kinds[i])
           G == [s \in Progress \X (1..n) |-> Step(s[1], s[2])]
           F(f) == f = [i \in 0..n |-> IF i = 0 THEN Start ELSE Step(f[i - 1], i)]
<1>1. n \in Nat /\ \A i \in 1..n : kinds[i] \in Kinds
  BY LenProperties
<1>2. \A x \in Progress, i \in 1..n : Step(x, i) \in Progress
  BY <1>1, NextFieldType
<1>3. Start \in Progress
  BY DEF Start, Progress
<1> HIDE DEF n
<1>4. /\ G \in [Progress \X (1..n) -> Progress]
      /\ \A x \in Progress, i \in 1..n : G[<<x, i>>] = Step(x, i)
  <2> HIDE DEF Step
  <2>1. QED
    BY <1>2
<1>5. PICK f : FoldOf(f, n, Progress, Start, G)
  <2> HIDE DEF G
  <2>1. QED
    BY <1>1, <1>3, <1>4, FoldExists
<1>6. /\ f \in [0..n -> Progress] /\ f[0] = Start
      /\ \A i \in 1..n : f[i] = Step(f[i - 1], i)
  <2> HIDE DEF G, Step
  <2>1. \A i \in 1..n : i - 1 \in 0..n
    BY <1>1
  <2>2. QED
    BY <1>4, <1>5, <2>1 DEF FoldOf
<1> HIDE DEF Step
<1>7. F(f)
  <2>1. f = [i \in 0..n |-> f[i]]
    BY <1>6
  <2>2. ASSUME NEW i \in 0..n
        PROVE  f[i] = IF i = 0 THEN Start ELSE Step(f[i - 1], i)
    <3>1. i = 0 \/ i \in 1..n
      BY <1>1
    <3>2. QED
      BY <1>6, <3>1
  <2>3. QED
    BY <2>1, <2>2
<1>8. ASSUME NEW g, F(g) PROVE g = f
  <2>1. DOMAIN g = 0..n /\ g = [i \in 0..n |-> g[i]] /\ g[0] = Start
    BY <1>1, <1>8
  <2>2. ASSUME NEW i \in 0..n - 1, g[i] = f[i] PROVE g[i + 1] = f[i + 1]
    <3>1. i + 1 \in 0..n /\ i + 1 \in 1..n /\ (i + 1) - 1 = i /\ i + 1 # 0
      BY <1>1
    <3>2. g[i + 1] = Step(g[i], i + 1)
      BY <1>8, <3>1
    <3>3. f[i + 1] = Step(f[i], i + 1)
      BY <1>6, <3>1
    <3>4. QED
      BY <2>2, <3>2, <3>3
  <2>3. GoAlike(g, f, n)
    BY <1>6, <2>1, <2>2 DEF GoAlike
  <2>4. \A i \in 0..n : g[i] = f[i]
    BY <1>1, <2>3, FoldUnique
  <2>5. QED
    BY <1>6, <2>1, <2>4
<1>9. Fields(buf, kinds) = f[n]
  <2>1. Fields(buf, kinds) = (CHOOSE g : F(g))[n]
    BY DEF Fields, Start, n, Step
  <2>2. (CHOOSE g : F(g)) = f
    <3> HIDE DEF F
    <3>1. QED
      BY <1>7, <1>8
  <2>3. QED
    BY <2>1, <2>2
<1>10. QED
  BY <1>6, <1>9 DEF n, Step

\* Reading an int that is there, and a string at the end.
At(rpos, vals) == [ok |-> TRUE, rpos |-> rpos, vals |-> vals]

LEMMA NextInt ==
  ASSUME NEW buf, NEW r, NEW vals, ~(r > Len(buf))
  PROVE  NextField(buf, At(r, vals), "int") = At(r + 1, Append(vals, buf[r].val))
<1> DEFINE g == GetInt(buf, r)
<1>1. g = [ok |-> TRUE, val |-> buf[r].val, rpos |-> r + 1]
  BY DEF GetInt
<1>2. g.ok /\ g.val = buf[r].val /\ g.rpos = r + 1
  BY <1>1
<1> HIDE DEF g
<1>3. At(r, vals).ok /\ At(r, vals).rpos = r /\ At(r, vals).vals = vals
  BY DEF At
<1>4. NextField(buf, At(r, vals), "int")
      = [ok |-> TRUE, rpos |-> g.rpos, vals |-> Append(vals, g.val)]
  BY <1>2, <1>3 DEF NextField, g
<1>5. QED
  BY <1>2, <1>4 DEF At

LEMMA NextString ==
  ASSUME NEW buf \in Buffers, NEW s \in Seq(Nat), NEW vals
  PROVE  NextField(PutString(buf, s), At(Len(buf) + 1, vals), "string")
         = At(Len(buf) + 2 + Len(Cut(s)), Append(vals, Cut(s)))
<1> DEFINE r == Len(buf) + 1
           new == PutString(buf, s)
           g == GetString(new, r)
<1>1. g = [ok |-> TRUE, rpos |-> Len(buf) + 2 + Len(Cut(s)), val |-> Cut(s)]
  BY GetStringFacts
<1>2. g.ok /\ g.val = Cut(s) /\ g.rpos = Len(buf) + 2 + Len(Cut(s))
  BY <1>1
<1> HIDE DEF g
<1>3. At(r, vals).ok /\ At(r, vals).rpos = r /\ At(r, vals).vals = vals
  BY DEF At
<1>4. NextField(new, At(r, vals), "string")
      = [ok |-> TRUE, rpos |-> g.rpos, vals |-> Append(vals, g.val)]
  <2> HIDE DEF r, new
  <2>1. QED
    BY <1>2, <1>3 DEF NextField, g
<1>5. QED
  BY <1>2, <1>4 DEF At

\* The packets of this program: a string, behind none, one or two integers.
OneString(s) == PutString(<<>>, s)
AndString(a, s) == PutString(PutInt(<<>>, a), s)
TwoAndString(h, a, s) == PutString(PutInt(PutInt(<<>>, h), a), s)
GivesBack(f, vals) == f.ok = TRUE /\ f.vals = vals

LEMMA FirstInt ==
  ASSUME NEW v \in Nat
  PROVE  PutInt(<<>>, v) \in Buffers /\ Len(PutInt(<<>>, v)) = 1 /\ PutInt(<<>>, v)[1].val = v
<1>1. <<>> \in Buffers /\ Len(<<>>) + 1 = 1
  BY DEF Buffers
<1>2. /\ PutInt(<<>>, v) \in Buffers /\ Len(PutInt(<<>>, v)) = Len(<<>>) + 1
      /\ PutInt(<<>>, v)[Len(<<>>) + 1].val = v
  BY <1>1, PutIntFacts
<1> HIDE DEF Buffers
<1>3. QED
  BY <1>1, <1>2

LEMMA AppendedValues ==
  ASSUME NEW x, NEW y, NEW z
  PROVE  /\ Append(Append(<<>>, x), y) = <<x, y>>
         /\ Append(Append(Append(<<>>, x), y), z) = <<x, y, z>>
<1> DEFINE S == {x, y, z}
           p == Append(<<x>>, y)
           q == <<x, y>>
           r == Append(q, z)
           t == <<x, y, z>>
<1>1. Append(<<>>, x) = <<x>>
  OBVIOUS
<1>2. <<x>> \in Seq(S) /\ q \in Seq(S) /\ t \in Seq(S)
  OBVIOUS
<1>3. Len(<<x>>) = 1 /\ Len(q) = 2 /\ Len(t) = 3 /\ <<x>>[1] = x
  OBVIOUS
<1>4. q[1] = x /\ q[2] = y /\ t[1] = x /\ t[2] = y /\ t[3] = z
  OBVIOUS
<1>5. p = q
  <2>1. /\ p \in Seq(S) /\ Len(p) = Len(<<x>>) + 1
        /\ \A i \in 1..Len(<<x>>) : p[i] = <<x>>[i]
        /\ p[Len(<<x>>) + 1] = y
    BY <1>2, AppendFacts
  <2> HIDE DEF p, q, t, S
  <2>2. Len(p) = 2 /\ p[1] = x /\ p[2] = y
    BY <1>3, <2>1
  <2>3. \A i \in 1..2 : i = 1 \/ i = 2
    OBVIOUS
  <2>4. QED
    BY <1>2, <1>3, <1>4, <2>1, <2>2, <2>3, SeqEqual
<1>6. r = t
  <2>1. /\ r \in Seq(S) /\ Len(r) = Len(q) + 1
        /\ \A i \in 1..Len(q) : r[i] = q[i]
        /\ r[Len(q) + 1] = z
    BY <1>2, AppendFacts
  <2> HIDE DEF r, q, t, S
  <2>2. Len(r) = 3 /\ r[1] = x /\ r[2] = y /\ r[3] = z
    BY <1>3, <1>4, <2>1
  <2>3. \A i \in 1..3 : i = 1 \/ i = 2 \/ i = 3
    OBVIOUS
  <2>4. QED
    BY <1>2, <1>3, <1>4, <2>1, <2>2, <2>3, SeqEqual
<1>7. QED
  BY <1>1, <1>5, <1>6

LEMMA ReadsString ==
  ASSUME NEW s \in Seq(Nat)
  PROVE  GivesBack(Fields(OneString(s), <<"string">>), <<Cut(s)>>)
<1> DEFINE kinds == <<"string">>
           buf == OneString(s)
           rpos == Len(<<>>) + 2 + Len(Cut(s))
<1>1. kinds \in Seq(Kinds) /\ Len(kinds) = 1 /\ kinds[1] = "string"
  BY DEF Kinds
<1>2. <<>> \in Buffers /\ Len(<<>>) = 0
  BY DEF Buffers
<1>3. buf \in Buffers
  BY <1>2, PutStringFacts DEF OneString
<1> HIDE DEF kinds, buf, rpos
<1>4. PICK f : /\ f[0] = Start /\ Fields(buf, kinds) = f[Len(kinds)]
               /\ \A i \in 1..Len(kinds) : f[i] = NextField(buf, f[i - 1], kinds[i])
  BY <1>1, <1>3, FieldsFacts
<1>5. f[1] = NextField(buf, f[0], "string")
  <2>1. 1 \in 1..1 /\ 1 - 1 = 0
    OBVIOUS
  <2>2. QED
    BY <1>1, <1>4, <2>1
<1>6. f[0] = At(1, <<>>)
  BY <1>4 DEF Start, At
<1>7. f[1] = At(rpos, Append(<<>>, Cut(s)))
  <2>1. NextField(buf, At(0 + 1, <<>>), "string") = At(rpos, Append(<<>>, Cut(s)))
    BY <1>2, NextString DEF buf, OneString, rpos
  <2>2. QED
    BY <1>5, <1>6, <2>1
<1>8. Append(<<>>, Cut(s)) = <<Cut(s)>>
  OBVIOUS
<1>9. Fields(buf, kinds) = At(rpos, <<Cut(s)>>)
  BY <1>1, <1>4, <1>7, <1>8
<1>10. QED
  BY <1>9 DEF At, GivesBack, kinds, buf

LEMMA ReadsAndString ==
  ASSUME NEW a \in Nat, NEW s \in Seq(Nat)
  PROVE  GivesBack(Fields(AndString(a, s), <<"int", "string">>), <<a, Cut(s)>>)
<1> DEFINE kinds == <<"int", "string">>
           pre == PutInt(<<>>, a)
           buf == AndString(a, s)
           rpos == Len(pre) + 2 + Len(Cut(s))
<1>1. kinds \in Seq(Kinds) /\ Len(kinds) = 2 /\ kinds[1] = "int" /\ kinds[2] = "string"
  BY DEF Kinds
<1>2. <<>> \in Buffers /\ Len(<<>>) = 0
  BY DEF Buffers
<1>3. pre \in Buffers /\ Len(pre) = 1 /\ pre[1].val = a
  BY <1>2, FirstInt
<1> HIDE DEF kinds, pre, rpos
<1>4. buf = PutString(pre, s)
  BY DEF AndString, pre
<1> HIDE DEF buf
<1>5. /\ buf \in Buffers /\ Len(buf) = 2 + Len(Cut(s)) /\ buf[1].val = a
  <2>1. 1 \in 1..1 /\ 1 + 1 + Len(Cut(s)) = 2 + Len(Cut(s))
    BY CutFacts, LenProperties
  <2>2. /\ buf \in Buffers /\ Len(buf) = Len(pre) + 1 + Len(Cut(s))
        /\ \A i \in 1..Len(pre) : buf[i] = pre[i]
    BY <1>3, <1>4, PutStringFacts
  <2>3. QED
    BY <1>3, <2>1, <2>2
<1>6. PICK f : /\ f[0] = Start /\ Fields(buf, kinds) = f[Len(kinds)]
               /\ \A i \in 1..Len(kinds) : f[i] = NextField(buf, f[i - 1], kinds[i])
  BY <1>1, <1>5, FieldsFacts
<1>7. f[1] = NextField(buf, f[0], "int") /\ f[2] = NextField(buf, f[1], "string")
  <2>1. 1 \in 1..2 /\ 1 - 1 = 0 /\ 2 \in 1..2 /\ 2 - 1 = 1
    OBVIOUS
  <2>2. QED
    BY <1>1, <1>6, <2>1
<1>8. f[1] = At(2, Append(<<>>, a))
  <2>1. f[0] = At(1, <<>>)
    BY <1>6 DEF Start, At
  <2>2. ~(1 > Len(buf)) /\ 1 + 1 = 2
    BY <1>5, CutFacts, LenProperties
  <2>3. QED
    BY <1>5, <1>7, <2>1, <2>2, NextInt, ZenonT(40)
<1>9. f[2] = At(rpos, Append(Append(<<>>, a), Cut(s)))
  <2>1. NextField(buf, At(Len(pre) + 1, Append(<<>>, a)), "string")
        = At(rpos, Append(Append(<<>>, a), Cut(s)))
    BY <1>3, <1>4, NextString DEF rpos
  <2>2. Len(pre) + 1 = 2
    BY <1>3
  <2>3. QED
    BY <1>7, <1>8, <2>1, <2>2
<1>10. Append(Append(<<>>, a), Cut(s)) = <<a, Cut(s)>>
  BY AppendedValues
<1>11. Fields(buf, kinds) = At(rpos, <<a, Cut(s)>>)
  BY <1>1, <1>6, <1>9, <1>10
<1>12. QED
  BY <1>11 DEF At, GivesBack, kinds, buf

LEMMA ReadsTwoAndString ==
  ASSUME NEW h \in Nat, NEW a \in Nat, NEW s \in Seq(Nat)
  PROVE  GivesBack(Fields(TwoAndString(h, a, s), <<"int", "int", "string">>),
                   <<h, a, Cut(s)>>)
<1> DEFINE kinds == <<"int", "int", "string">>
           one == PutInt(<<>>, h)
           pre == PutInt(one, a)
           buf == TwoAndString(h, a, s)
           rpos == Len(pre) + 2 + Len(Cut(s))
<1>1. /\ kinds \in Seq(Kinds) /\ Len(kinds) = 3 /\ kinds[1] = "int" /\ kinds[2] = "int"
      /\ kinds[3] = "string"
  BY DEF Kinds
<1>2. <<>> \in Buffers /\ Len(<<>>) = 0
  BY DEF Buffers
<1>3. one \in Buffers /\ Len(one) = 1 /\ one[1].val = h
  BY <1>2, FirstInt
<1> HIDE DEF kinds, one, rpos
<1>4. pre \in Buffers /\ Len(pre) = 2 /\ pre[1].val = h /\ pre[2].val = a
  <2>1. 1 \in 1..1 /\ 1 + 1 = 2
    OBVIOUS
  <2>2. /\ pre \in Buffers /\ Len(pre) = Len(one) + 1
        /\ \A i \in 1..Len(one) : pre[i] = one[i]
        /\ pre[Len(one) + 1].val = a
    BY <1>3, PutIntFacts
  <2> HIDE DEF pre
  <2>3. QED
    BY <1>3, <2>1, <2>2
<1>5. buf = PutString(pre, s)
  BY DEF TwoAndString, pre, one
<1> HIDE DEF pre, buf
<1>6. /\ buf \in Buffers /\ Len(buf) = 3 + Len(Cut(s)) /\ buf[1].val = h /\ buf[2].val = a
  <2>1. 1 \in 1..2 /\ 2 \in 1..2 /\ 2 + 1 + Len(Cut(s)) = 3 + Len(Cut(s))
    BY CutFacts, LenProperties
  <2>2. /\ buf \in Buffers /\ Len(buf) = Len(pre) + 1 + Len(Cut(s))
        /\ \A i \in 1..Len(pre) : buf[i] = pre[i]
    BY <1>4, <1>5, PutStringFacts
  <2>3. QED
    BY <1>4, <2>1, <2>2
<1>7. PICK f : /\ f[0] = Start /\ Fields(buf, kinds) = f[Len(kinds)]
               /\ \A i \in 1..Len(kinds) : f[i] = NextField(buf, f[i - 1], kinds[i])
  BY <1>1, <1>6, FieldsFacts
<1>8. /\ f[1] = NextField(buf, f[0], "int") /\ f[2] = NextField(buf, f[1], "int")
      /\ f[3] = NextField(buf, f[2], "string")
  <2>1. 1 \in 1..3 /\ 1 - 1 = 0 /\ 2 \in 1..3 /\ 2 - 1 = 1 /\ 3 \in 1..3 /\ 3 - 1 = 2
    OBVIOUS
  <2>2. QED
    BY <1>1, <1>7, <2>1
<1>9. ~(1 > Len(buf)) /\ 1 + 1 = 2 /\ ~(2 > Len(buf)) /\ 2 + 1 = 3
  BY <1>6, CutFacts, LenProperties
<1>10. f[1] = At(2, Append(<<>>, h))
  <2>1. f[0] = At(1, <<>>)
    BY <1>7 DEF Start, At
  <2>2. QED
    BY <1>6, <1>8, <1>9, <2>1, NextInt, ZenonT(40)
<1>11. f[2] = At(3, Append(Append(<<>>, h), a))
  BY <1>6, <1>8, <1>9, <1>10, NextInt
<1>12. f[3] = At(rpos, Append(Append(Append(<<>>, h), a), Cut(s)))
  <2>1. NextField(buf, At(Len(pre) + 1, Append(Append(<<>>, h), a)), "string")
        = At(rpos, Append(Append(Append(<<>>, h), a), Cut(s)))
    BY <1>4, <1>5, NextString DEF rpos
  <2>2. Len(pre) + 1 = 3
    BY <1>4
  <2>3. QED
    BY <1>8, <1>11, <2>1, <2>2
<1>13. Append(Append(Append(<<>>, h), a), Cut(s)) = <<h, a, Cut(s)>>
  BY AppendedValues
<1>14. Fields(buf, kinds) = At(rpos, <<h, a, Cut(s)>>)
  BY <1>1, <1>7, <1>12, <1>13
<1>15. QED
  BY <1>14 DEF At, GivesBack, kinds, buf

CarriedField == [is |-> "field", val |-> Carried]

\* The packet on its way.
Saving == packet = Packet("SAVEPLAYERINFO", account, OneString(record))
ToDb == packet = Packet("REDIS_2_DB_SAVEPLAYERINFO", 0, AndString(account, Carried))
FromDb(hall) ==
  packet = Packet("DB_2_REDIS_ALLPLAYERINFO", 0, TwoAndString(hall, account, Carried))
ToWorld ==
  packet = Packet("REDIS_WS_LOADPLAYERINFO", 0, TwoAndString(Hall, account, Carried))

\* The inductive invariant: what is carried is the record with its cuts.
PathInv ==
  /\ record \in Seq(Nat) /\ account = Account
  /\ cached \in {NoField, CarriedField}
  /\ \A g \in got : g[2] = account /\ g[3] = Carried
  /\ \/ packet = NoPacket
     \/ Saving
     \/ ToDb
     \/ \E hall \in {Hall, NoHall} : FromDb(hall)
     \/ ToWorld

\* Neither cut leaves anything for the next one.
LEMMA CarriedFacts ==
  ASSUME record \in Seq(Nat)
  PROVE  /\ Carried \in Seq(Nat) /\ Cut(Carried) = Carried
         /\ Carried = CString(Cut(record)) /\ CString(Carried) = Carried
<1> DEFINE s == Cut(record)
<1>1. s \in Seq(Nat) /\ Len(s) < Modulus /\ Carried = CString(s)
  BY CutFacts DEF Carried
<1> HIDE DEF s
<1>2. CString(s) \in Seq(Nat) /\ Len(CString(s)) <= Len(s) /\ CString(CString(s)) = CString(s)
  BY <1>1, CStringFacts
<1>3. Carried \in Seq(Nat) /\ Len(Carried) <= Len(s)
  BY <1>1, <1>2
<1>4. Len(Carried) < Modulus
  <2>1. Len(Carried) \in Nat /\ Len(s) \in Nat /\ Modulus \in Nat
    BY <1>1, <1>3, LenProperties, RecordConstants
  <2>2. QED
    BY <1>1, <1>3, <2>1
<1>5. Cut(Carried) = Carried
  BY <1>3, <1>4, CutFacts
<1>6. QED
  BY <1>1, <1>2, <1>3, <1>5 DEF s

\* The record does not change.
LEMMA SameRecord ==
  ASSUME UNCHANGED <<record, account>>
  PROVE  /\ Carried' = Carried /\ CarriedField' = CarriedField
         /\ NoField' = NoField
         /\ packet' = NoPacket => packet' = NoPacket'
  BY DEF Carried, CarriedField, NoField, NoPacket

LEMMA PathStep == PathInv /\ [PathNext]_pathVars => PathInv'
<1> SUFFICES ASSUME PathInv, [PathNext]_pathVars PROVE PathInv'
  OBVIOUS
<1>1. UNCHANGED <<record, account>>
  BY DEF PathNext, pathVars, Save, StoreSave, SaveToDb, DbReads, HandleDbCache,
         LoadPlayerInfo, WorldReads, Exception
<1>2. /\ record' = record /\ account' = account /\ Carried' = Carried
      /\ CarriedField' = CarriedField
  BY <1>1, SameRecord
<1>3. /\ record \in Seq(Nat) /\ account = Account /\ Account \in Nat
      /\ Carried \in Seq(Nat) /\ Cut(Carried) = Carried
      /\ Carried = CString(Cut(record)) /\ CString(Carried) = Carried
  BY CarriedFacts DEF PathInv, Account
<1>4. /\ cached \in {NoField, CarriedField}
      /\ \A g \in got : g[2] = account /\ g[3] = Carried
  BY DEF PathInv
\* What a step is to show.
<1> DEFINE Goes == \/ packet' = NoPacket
                   \/ packet' = Packet("SAVEPLAYERINFO", account, OneString(record))
                   \/ packet' = Packet("REDIS_2_DB_SAVEPLAYERINFO", 0, AndString(account, Carried))
                   \/ \E hall \in {Hall, NoHall} :
                        packet' = Packet("DB_2_REDIS_ALLPLAYERINFO", 0,
                                         TwoAndString(hall, account, Carried))
                   \/ packet' = Packet("REDIS_WS_LOADPLAYERINFO", 0,
                                       TwoAndString(Hall, account, Carried))
<1>5. SUFFICES /\ Goes /\ cached' \in {NoField, CarriedField}
               /\ \A g \in got' : g[2] = account /\ g[3] = Carried
  BY <1>2, <1>3 DEF PathInv, Saving, ToDb, FromDb, ToWorld
<1>6. CASE Save
  BY <1>4, <1>6 DEF Save, OneString
<1>7. CASE StoreSave
  <2>1. Saving
    BY <1>7 DEF StoreSave, Reads, PathInv, ToDb, FromDb, ToWorld, Packet, NoPacket
  <2>2. packet.buf = OneString(record)
    BY <2>1 DEF Saving, Packet
  <2> DEFINE f == Fields(packet.buf, <<"string">>)
  <2>3. f.ok = TRUE /\ f.vals = <<Cut(record)>>
    BY <1>3, <2>2, ReadsString DEF GivesBack
  <2> HIDE DEF f
  <2>4. f.ok /\ f.vals[1] = Cut(record)
    BY <2>3
  <2>5. cached' = Field(f.vals[1]) /\ packet' = NoPacket /\ got' = got
    BY <1>7, <2>4 DEF StoreSave, f
  <2>6. cached' = CarriedField
    BY <1>3, <2>4, <2>5 DEF Field, CarriedField
  <2>7. QED
    BY <1>4, <2>5, <2>6
<1>8. CASE SaveToDb
  <2>1. cached.val = Carried /\ cached' = cached /\ got' = got
    BY <1>4, <1>8 DEF SaveToDb, CarriedField
  <2>2. packet' = Packet("REDIS_2_DB_SAVEPLAYERINFO", 0, AndString(account, Carried))
    BY <1>8, <2>1 DEF SaveToDb, AndString
  <2>3. QED
    BY <1>4, <2>1, <2>2
<1>9. CASE DbReads
  <2>1. ToDb
    BY <1>9 DEF DbReads, Reads, PathInv, Saving, FromDb, ToWorld, Packet, NoPacket
  <2>2. packet.buf = AndString(account, Carried)
    BY <2>1 DEF ToDb, Packet
  <2> DEFINE f == Fields(packet.buf, <<"int", "string">>)
  <2>3. f.ok = TRUE /\ f.vals = <<account, Cut(Carried)>>
    BY <1>3, <2>2, ReadsAndString DEF GivesBack
  <2> HIDE DEF f
  <2>4. f.ok /\ f.vals[1] = account /\ f.vals[2] = Carried
    BY <1>3, <2>3
  <2>5. /\ got' = got \cup {<<"db", f.vals[1], f.vals[2]>>}
        /\ \E hall \in {Hall, NoHall} :
             packet' = Packet("DB_2_REDIS_ALLPLAYERINFO", 0,
               PutString(PutInt(PutInt(<<>>, hall), f.vals[1]), f.vals[2]))
        /\ cached' = cached
    BY <1>9, <2>4 DEF DbReads, f
  <2>6. Goes
    BY <2>4, <2>5 DEF TwoAndString
  <2>7. \A g \in got' : g[2] = account /\ g[3] = Carried
    BY <1>4, <2>4, <2>5
  <2>8. QED
    BY <1>4, <2>5, <2>6, <2>7
<1>10. CASE HandleDbCache
  <2>1. PICK hall \in {Hall, NoHall} : FromDb(hall)
    BY <1>10 DEF HandleDbCache, Reads, PathInv, Saving, ToDb, ToWorld, Packet, NoPacket
  <2>2. packet.buf = TwoAndString(hall, account, Carried) /\ hall \in Nat
    BY <2>1 DEF FromDb, Packet, Hall, NoHall
  <2> DEFINE f == Fields(packet.buf, <<"int", "int", "string">>)
  <2>3. f.ok = TRUE /\ f.vals = <<hall, account, Cut(Carried)>>
    BY <1>3, <2>2, ReadsTwoAndString DEF GivesBack
  <2> HIDE DEF f
  <2>4. f.ok /\ f.vals[1] = hall /\ f.vals[2] = account /\ f.vals[3] = Carried
    BY <1>3, <2>3
  <2>5. /\ cached' = Field(f.vals[3]) /\ got' = got
        /\ packet' = IF f.vals[1] = NoHall THEN NoPacket
                     ELSE Packet("REDIS_WS_LOADPLAYERINFO", 0,
                       PutString(PutInt(PutInt(<<>>, f.vals[1]), f.vals[2]), f.vals[3]))
    BY <1>10, <2>4 DEF HandleDbCache, f
  <2>6. cached' = CarriedField
    BY <1>3, <2>4, <2>5 DEF Field, CarriedField
  <2>7. Goes
    BY <2>1, <2>4, <2>5 DEF TwoAndString
  <2>8. QED
    BY <1>4, <2>5, <2>6, <2>7
<1>11. CASE LoadPlayerInfo
  <2>1. cached.val = Carried /\ cached' = cached /\ got' = got
    BY <1>4, <1>11 DEF LoadPlayerInfo, CarriedField
  <2>2. packet' = Packet("REDIS_WS_LOADPLAYERINFO", 0, TwoAndString(Hall, account, Carried))
    BY <1>11, <2>1 DEF LoadPlayerInfo, TwoAndString
  <2>3. QED
    BY <1>4, <2>1, <2>2
<1>12. CASE WorldReads
  <2>1. ToWorld
    BY <1>12 DEF WorldReads, Reads, PathInv, Saving, ToDb, FromDb, Packet, NoPacket
  <2>2. packet.buf = TwoAndString(Hall, account, Carried) /\ Hall \in Nat
    BY <2>1 DEF ToWorld, Packet, Hall
  <2> DEFINE f == Fields(packet.buf, <<"int", "int", "string">>)
  <2>3. f.ok = TRUE /\ f.vals = <<Hall, account, Cut(Carried)>>
    BY <1>3, <2>2, ReadsTwoAndString DEF GivesBack
  <2> HIDE DEF f
  <2>4. f.ok /\ f.vals[2] = account /\ f.vals[3] = Carried
    BY <1>3, <2>3
  <2>5. got' = got \cup {<<"world", f.vals[2], f.vals[3]>>} /\ packet' = NoPacket
        /\ cached' = cached
    BY <1>12, <2>4 DEF WorldReads, f
  <2>6. \A g \in got' : g[2] = account /\ g[3] = Carried
    BY <1>4, <2>4, <2>5
  <2>7. QED
    BY <1>4, <2>5, <2>6
<1>13. CASE UNCHANGED pathVars
  <2>1. packet' = packet /\ cached' = cached /\ got' = got
    BY <1>13 DEF pathVars
  <2>2. Goes
    BY <2>1 DEF PathInv, Saving, ToDb, FromDb, ToWorld
  <2>3. QED
    BY <1>4, <2>1, <2>2
<1>14. QED
  BY <1>6, <1>7, <1>8, <1>9, <1>10, <1>11, <1>12, <1>13 DEF PathNext

LEMMA PathHolds == PathSpec => []PathInv
<1>1. PathInit => PathInv
  <2>1. ASSUME PathInit PROVE PathInv
    <3>1. record \in Seq(Nat)
      BY <2>1, RecordConstants DEF PathInit
    <3>2. QED
      BY <2>1, <3>1 DEF PathInit, PathInv
  <2>2. QED
    BY <2>1
<1>2. QED
  BY <1>1, PathStep, PTL DEF PathSpec

\* CutOnce: whatever is read of a record was cut to its length modulo 2^16
\* (ByteBuffer's <<) and at its first zero byte (hset of a C string) and nowhere
\* else, however often it goes round, for every record and every modulus.
THEOREM RecordsAreCutOnce == PathSpec => []CutOnce
<1>1. PathInv => CutOnce
  BY DEF PathInv, CutOnce
<1>2. QED
  BY <1>1, PathHolds, PTL

\* NoException: no handler reads a packet past its end (ByteBuffer's >> throws).
THEOREM NothingThrown == PathSpec => []NoException
<1>1. PathInv => NoException
  BY DEF PathInv, NoException, Saving, ToDb, FromDb, ToWorld, Packet, NoPacket
<1>2. QED
  BY <1>1, PathHolds, PTL

-----------------------------------------------------------------------------
(***************************************************************************)
(* The printed reply to CLUSTER SLOTS and what is parsed of it.            *)
(***************************************************************************)
LEMMA WidthFacts ==
  ASSUME NEW n \in Nat
  PROVE  /\ Width(n) \in Nat
         /\ n < Base => Width(n) = 1
         /\ n >= Base => Width(n) >= 2
<1> DEFINE most == n \div Base
           F(f) == f = [i \in 0..most |-> IF i = 0 THEN n ELSE f[i - 1] \div Base]
           rest == CHOOSE f : F(f)
           D == {i \in 1..most : rest[i] # 0}
           G == [s \in Nat \X (1..most) |-> s[1] \div Base]
<1>0. Base \in Nat /\ Base > 4
  BY SlotConstants
<1>1. /\ \A x \in Nat : x \div Base \in Nat
      /\ n < Base => most = 0
      /\ n >= Base => most >= 1
  BY <1>0
<1>2. Width(n) = 1 + Cardinality(D)
  BY DEF Width
<1>3. IsFiniteSet(D) /\ Cardinality(D) \in Nat
  <2>1. IsFiniteSet(1..most)
    BY <1>1, FS_Interval
  <2>2. IsFiniteSet(D)
    BY <2>1, FS_Subset
  <2>3. QED
    BY <2>2, FS_CardinalityType
<1>4. CASE n < Base
  <2>1. D = {}
    BY <1>1, <1>4
  <2>2. Cardinality(D) = 0
    BY <2>1, FS_EmptySet
  <2>3. QED
    BY <1>0, <1>2, <1>4, <2>2
<1>5. CASE n >= Base
  <2>1. /\ G \in [Nat \X (1..most) -> Nat]
        /\ \A x \in Nat, i \in 1..most : G[<<x, i>>] = x \div Base
    BY <1>1
  <2> HIDE DEF G, most
  <2>0. most \in Nat
    BY <1>1 DEF most
  <2>2. PICK f : FoldOf(f, most, Nat, n, G)
    BY <2>0, <2>1, FoldExists
  <2>3. /\ f \in [0..most -> Nat] /\ f[0] = n
        /\ \A i \in 1..most : f[i] = f[i - 1] \div Base
    <3>1. f \in [0..most -> Nat] /\ f[0] = n
      BY <2>2 DEF FoldOf
    <3>2. ASSUME NEW i \in 1..most PROVE f[i] = f[i - 1] \div Base
      <4>1. f[i] = G[<<f[i - 1], i>>]
        BY <2>2 DEF FoldOf
      <4>2. i - 1 \in 0..most
        BY <2>0
      <4>3. f[i - 1] \in Nat
        BY <3>1, <4>2
      <4>4. QED
        BY <2>1, <4>1, <4>3
    <3>3. QED
      BY <3>1, <3>2
  <2>4. F(f)
    <3>1. ASSUME NEW i \in 0..most
          PROVE  f[i] = IF i = 0 THEN n ELSE f[i - 1] \div Base
      <4>1. i = 0 \/ i \in 1..most
        OBVIOUS
      <4>2. QED
        BY <2>3, <4>1
    <3>2. QED
      BY <2>3, <3>1
  <2>5. F(rest)
    <3> HIDE DEF F
    <3>1. QED
      BY <2>4
  <2>6. most \in Nat /\ most >= 1 /\ most # 0
    BY <1>1, <1>5 DEF most
  <2>7. rest[1] = most
    <3>1. 0 \in 0..most /\ 1 \in 0..most /\ 1 # 0 /\ 1 - 1 = 0
      BY <2>6
    <3> HIDE DEF rest
    <3>2. rest[0] = n /\ rest[1] = rest[0] \div Base
      BY <2>5, <3>1
    <3>3. QED
      BY <3>2 DEF most
  <2>8. 1 \in D
    BY <2>6, <2>7
  <2>9. Cardinality(D) # 0
    BY <1>3, <2>8, FS_EmptySet
  <2>10. QED
    BY <1>0, <1>2, <1>3, <1>5, <2>9
<1>6. QED
  BY <1>0, <1>2, <1>3, <1>4, <1>5

-----------------------------------------------------------------------------
\* The cluster, which stays as it is.
ClusterTypes ==
  /\ owner \in [0..NSlots - 1 -> ToSet(Masters) \cup {NoOne}]
  /\ digits \in [ToSet(Masters) -> 1..3] /\ slaves \in Nat

RangeRecords == [min : Nat, max : Nat, master : ToSet(Masters)]

\* A range is of slots of its master.
RangeOK(r) ==
  /\ r.max < NSlots
  /\ \A s \in r.min..r.max : owner[s] = r.master

\* A run has an end.
LEMMA RunEndFacts ==
  ASSUME ClusterTypes, NEW a \in 0..NSlots - 1, NEW m, owner[a] = m
  PROVE  LET b == RunEnd(m, a)
         IN /\ b \in a..NSlots - 1
            /\ b = NSlots - 1 \/ owner[b + 1] # m
            /\ \A j \in a..b : owner[j] = m
<1> DEFINE Ends == {b \in a..NSlots - 1 : b = NSlots - 1 \/ owner[b + 1] # m}
           P(b) == /\ b = NSlots - 1 \/ owner[b + 1] # m
                   /\ \A j \in a..b : owner[j] = m
<1>1. NSlots \in Nat \ {0} /\ a \in Nat
  BY SlotConstants
<1>2. Ends \subseteq Nat /\ Ends # {}
  <2>1. NSlots - 1 \in Ends
    BY <1>1
  <2>2. QED
    BY <1>1, <2>1
<1>3. PICK b \in Ends : \A x \in Ends : b <= x
  <2> HIDE DEF Ends
  <2>1. QED
    BY <1>2, Least
<1>4. b \in a..NSlots - 1 /\ (b = NSlots - 1 \/ owner[b + 1] # m)
  BY <1>3
<1> DEFINE T == {k \in Nat : a + k <= b => owner[a + k] = m}
<1>5. 0 \in T
  BY <1>1
<1>6. ASSUME NEW k \in Nat, k \in T PROVE k + 1 \in T
  <2>1. SUFFICES ASSUME a + (k + 1) <= b PROVE owner[a + (k + 1)] = m
    OBVIOUS
  <2>2. /\ a + k \in a..NSlots - 1 /\ ~(b <= a + k) /\ (a + k) + 1 = a + (k + 1)
        /\ a + k # NSlots - 1
    BY <1>1, <1>4, <2>1
  <2>3. a + k \notin Ends
    BY <1>3, <2>2
  <2>4. QED
    BY <2>2, <2>3
<1>7. Nat \subseteq T
  <2> HIDE DEF T
  <2>1. QED
    BY <1>5, <1>6, InductiveSet
<1>8. ASSUME NEW j \in a..b PROVE owner[j] = m
  <2>1. j - a \in Nat /\ a + (j - a) = j /\ j <= b
    BY <1>1, <1>4
  <2>2. j - a \in T
    BY <1>7, <2>1
  <2>3. QED
    BY <2>1, <2>2
<1>9. b \in a..NSlots - 1 /\ P(b)
  BY <1>4, <1>8
<1>10. RunEnd(m, a) = CHOOSE x \in a..NSlots - 1 : P(x)
  BY DEF RunEnd
<1>11. RunEnd(m, a) \in a..NSlots - 1 /\ P(RunEnd(m, a))
  <2> HIDE DEF P
  <2>1. QED
    BY <1>9, <1>10
<1>12. QED
  BY <1>11

\* The ranges of a master are in its slots, and all of its slots are in them.
Covers(r, s) == r.min <= s /\ s <= r.max

LEMMA RangeAtFacts ==
  ASSUME ClusterTypes, NEW m \in ToSet(Masters), NEW a \in 0..NSlots - 1
  PROVE  /\ RangeAt(m, a) \in Seq(RangeRecords)
         /\ \A r \in ToSet(RangeAt(m, a)) : r \in RangeRecords /\ RangeOK(r)
         /\ owner[a] = m /\ (a = 0 \/ owner[a - 1] # m) =>
              [min |-> a, max |-> RunEnd(m, a), master |-> m] \in ToSet(RangeAt(m, a))
<1> DEFINE r == [min |-> a, max |-> RunEnd(m, a), master |-> m]
           starts == owner[a] = m /\ (a = 0 \/ owner[a - 1] # m)
<1>0. NSlots \in Nat \ {0}
  BY SlotConstants
<1>1. CASE starts
  <2>1. RangeAt(m, a) = <<r>>
    BY <1>1 DEF RangeAt
  <2>2. /\ RunEnd(m, a) \in a..NSlots - 1
        /\ \A j \in a..RunEnd(m, a) : owner[j] = m
    BY <1>1, RunEndFacts
  <2>3. r \in RangeRecords /\ RangeOK(r)
    BY <1>0, <2>2 DEF RangeRecords, RangeOK
  <2> HIDE DEF r
  <2>4. <<r>> \in Seq(RangeRecords) /\ ToSet(<<r>>) = {r}
    BY <2>3 DEF ToSet
  <2>5. QED
    BY <2>1, <2>3, <2>4 DEF r
<1>2. CASE ~starts
  <2>1. RangeAt(m, a) = <<>>
    BY <1>2 DEF RangeAt
  <2>2. ToSet(<<>>) = {} /\ <<>> \in Seq(RangeRecords)
    BY DEF ToSet
  <2> HIDE DEF r
  <2>3. QED
    BY <1>2, <2>1, <2>2
<1>3. QED
  BY <1>1, <1>2

LEMMA RangesOfFacts ==
  ASSUME ClusterTypes, NEW m \in ToSet(Masters)
  PROVE  /\ RangesOf(m) \in Seq(RangeRecords)
         /\ \A r \in ToSet(RangesOf(m)) : r \in RangeRecords /\ RangeOK(r)
         /\ \A s \in 0..NSlots - 1 :
              owner[s] = m => \E r \in ToSet(RangesOf(m)) : Covers(r, s)
<1> DEFINE ss == [i \in 1..NSlots |-> RangeAt(m, i - 1)]
<1>0. NSlots \in Nat \ {0}
  BY SlotConstants
<1>1. ASSUME NEW i \in 1..NSlots
      PROVE  /\ i - 1 \in 0..NSlots - 1 /\ ss[i] = RangeAt(m, i - 1)
             /\ RangeAt(m, i - 1) \in Seq(RangeRecords)
             /\ \A r \in ToSet(RangeAt(m, i - 1)) : r \in RangeRecords /\ RangeOK(r)
  <2>1. i - 1 \in 0..NSlots - 1
    BY <1>0
  <2>2. QED
    BY <2>1, RangeAtFacts
<1>2. ss \in Seq(Seq(RangeRecords)) /\ Len(ss) = NSlots
  BY <1>0, <1>1
<1>3. RangesOf(m) = FlattenSeq(ss)
  BY DEF RangesOf
<1> HIDE DEF ss
<1>4. /\ RangesOf(m) \in Seq(RangeRecords)
      /\ \A r : r \in ToSet(RangesOf(m)) <=> \E i \in 1..NSlots : r \in ToSet(ss[i])
  BY <1>2, <1>3, FlattenMembers
<1>5. ASSUME NEW r \in ToSet(RangesOf(m)) PROVE r \in RangeRecords /\ RangeOK(r)
  <2>1. PICK i \in 1..NSlots : r \in ToSet(ss[i])
    BY <1>4
  <2>2. QED
    BY <1>1, <2>1
<1>6. ASSUME NEW s \in 0..NSlots - 1, owner[s] = m
      PROVE  \E r \in ToSet(RangesOf(m)) : Covers(r, s)
  <2> DEFINE Run == {a \in 0..s : \A j \in a..s : owner[j] = m}
  <2>1. Run \subseteq Nat /\ s \in Run
    BY <1>6
  <2>2. PICK a \in Run : \A x \in Run : a <= x
    <3> HIDE DEF Run
    <3>1. QED
      BY <2>1, Least
  <2>3. a \in 0..s /\ a \in 0..NSlots - 1 /\ owner[a] = m
    BY <1>0, <2>2
  <2>4. a = 0 \/ owner[a - 1] # m
    <3>1. SUFFICES ASSUME a # 0, owner[a - 1] = m PROVE FALSE
      OBVIOUS
    <3>2. a - 1 \in 0..s /\ ~(a <= a - 1)
      BY <2>3, <3>1
    <3>3. \A j \in a - 1..s : j = a - 1 \/ j \in a..s
      BY <2>3
    <3>4. a - 1 \in Run
      BY <2>2, <3>1, <3>2, <3>3
    <3>5. QED
      BY <2>2, <3>2, <3>4
  <2>5. s <= RunEnd(m, a)
    <3>1. /\ RunEnd(m, a) \in a..NSlots - 1
          /\ RunEnd(m, a) = NSlots - 1 \/ owner[RunEnd(m, a) + 1] # m
      BY <2>3, RunEndFacts
    <3>2. SUFFICES ASSUME RunEnd(m, a) < s PROVE FALSE
      BY <1>0, <3>1
    <3>3. RunEnd(m, a) + 1 \in a..s /\ RunEnd(m, a) # NSlots - 1
      BY <1>0, <2>3, <3>1, <3>2
    <3>4. QED
      BY <2>2, <3>1, <3>3
  <2> DEFINE r == [min |-> a, max |-> RunEnd(m, a), master |-> m]
  <2>6. r \in ToSet(RangeAt(m, a))
    BY <2>3, <2>4, RangeAtFacts
  <2>7. a + 1 \in 1..NSlots /\ (a + 1) - 1 = a
    BY <1>0, <2>3
  <2>8. r \in ToSet(ss[a + 1])
    BY <1>1, <2>6, <2>7
  <2>9. r \in ToSet(RangesOf(m))
    BY <1>4, <2>7, <2>8
  <2>10. Covers(r, s)
    BY <2>3, <2>5 DEF Covers
  <2>11. QED
    BY <2>9, <2>10
<1>7. QED
  BY <1>4, <1>5, <1>6

\* A slot with an owner is in a range, and every range is of its master's.
LEMMA RangesFacts ==
  ASSUME ClusterTypes
  PROVE  /\ Ranges \in Seq(RangeRecords)
         /\ \A i \in 1..Len(Ranges) : Ranges[i] \in RangeRecords /\ RangeOK(Ranges[i])
         /\ \A s \in 0..NSlots - 1 :
              owner[s] # NoOne => \E i \in 1..Len(Ranges) : Covers(Ranges[i], s)
<1> DEFINE k == Len(Masters)
           ss == [i \in 1..k |-> RangesOf(Masters[i])]
<1>1. k \in Nat /\ ToSet(Masters) = {Masters[i] : i \in 1..k}
  <2>1. Masters \in Seq(ToSet(Masters))
    BY SlotConstants
  <2>2. k \in Nat /\ DOMAIN Masters = 1..k
    BY <2>1, LenProperties
  <2>3. QED
    BY <2>2 DEF ToSet
<1> HIDE DEF k
<1>2. ASSUME NEW i \in 1..k
      PROVE  /\ ss[i] = RangesOf(Masters[i]) /\ Masters[i] \in ToSet(Masters)
             /\ ss[i] \in Seq(RangeRecords)
             /\ \A r \in ToSet(ss[i]) : r \in RangeRecords /\ RangeOK(r)
  BY <1>1, RangesOfFacts
<1>3. ss \in Seq(Seq(RangeRecords)) /\ Len(ss) = k
  BY <1>1, <1>2
<1>4. Ranges = FlattenSeq(ss)
  BY DEF Ranges, k
<1> HIDE DEF ss
<1>5. /\ Ranges \in Seq(RangeRecords)
      /\ \A r : r \in ToSet(Ranges) <=> \E i \in 1..k : r \in ToSet(ss[i])
  BY <1>3, <1>4, FlattenMembers
<1>6. ToSet(Ranges) = {Ranges[i] : i \in 1..Len(Ranges)}
  <2>1. DOMAIN Ranges = 1..Len(Ranges)
    BY <1>5, LenProperties
  <2>2. QED
    BY <2>1 DEF ToSet
<1>7. \A i \in 1..Len(Ranges) : Ranges[i] \in RangeRecords /\ RangeOK(Ranges[i])
  BY <1>2, <1>5, <1>6
<1>8. ASSUME NEW s \in 0..NSlots - 1, owner[s] # NoOne
      PROVE  \E i \in 1..Len(Ranges) : Covers(Ranges[i], s)
  <2>1. owner[s] \in ToSet(Masters)
    BY <1>8 DEF ClusterTypes
  <2>2. PICK j \in 1..k : owner[s] = Masters[j]
    BY <1>1, <2>1
  <2>3. PICK r \in ToSet(RangesOf(Masters[j])) : Covers(r, s)
    BY <1>2, <2>2, RangesOfFacts
  <2>4. r \in ToSet(Ranges)
    BY <1>2, <1>5, <2>3
  <2>5. QED
    BY <1>6, <2>3, <2>4
<1>9. QED
  BY <1>5, <1>7, <1>8

-----------------------------------------------------------------------------
\* A line's indentation may be computed of any numbers.
Lines == [blanks : Int, kind : {"integer", "address", "empty"},
          val : Nat \cup ToSet(Masters) \cup {Replica}]

Bounds(i) ==
  <<Line(Width(Len(Ranges)) - Width(i), "integer", Ranges[i].min),
    Line(Indent(Len(Ranges)) + Width(3 + slaves) - Width(2), "integer", Ranges[i].max)>>
AddressLine(i, e) ==
  Line(Indent(Len(Ranges)) + Width(3 + slaves) - Width(e + 2), "address",
       IF e = 1 THEN Ranges[i].master ELSE Replica)
PortLine == Line(Indent(Len(Ranges)) + Indent(3 + slaves), "integer", Port)
NodeLines(i) == [e \in 1..1 + slaves |-> <<AddressLine(i, e), PortLine>>]
Texts == [i \in 1..Len(Ranges) |-> RangeText(Ranges[i], i, Len(Ranges))]

LEMMA TextFacts ==
  ASSUME ClusterTypes
  PROVE  /\ Texts \in Seq(Seq(Lines)) /\ Len(Texts) = Len(Ranges) /\ Len(Ranges) \in Nat
         /\ Ranges # <<>> => Text = FlattenSeq(Texts)
         /\ \A i \in 1..Len(Ranges) :
              /\ NodeLines(i) \in Seq(Seq(Lines)) /\ Len(NodeLines(i)) = 1 + slaves
              /\ Texts[i] = Bounds(i) \o FlattenSeq(NodeLines(i))
              /\ Bounds(i) \in Seq(Lines) /\ <<PortLine>> \in Seq(Lines)
              /\ \A e \in 1..1 + slaves : AddressLine(i, e) \in Lines
<1> DEFINE n == Len(Ranges)
<1>1. /\ slaves \in Nat /\ n \in Nat /\ Ranges \in Seq(RangeRecords)
      /\ \A i \in 1..n : Ranges[i] \in RangeRecords
  BY RangesFacts, LenProperties DEF ClusterTypes
<1>2. /\ Width(n) \in Nat /\ Width(3 + slaves) \in Nat /\ Width(2) \in Nat
      /\ \A i \in Nat : Width(i) \in Nat
  BY <1>1, WidthFacts
<1>3. Indent(n) \in Nat /\ Indent(3 + slaves) \in Nat
  <2>1. \A x \in Nat : x + 2 \in Nat
    OBVIOUS
  <2>2. QED
    BY <1>2, <2>1 DEF Indent
<1>4. PortLine \in Lines
  BY <1>3 DEF PortLine, Line, Lines, Port
<1>5. ASSUME NEW i \in 1..n
      PROVE  /\ NodeLines(i) \in Seq(Seq(Lines)) /\ Len(NodeLines(i)) = 1 + slaves
             /\ Texts[i] = Bounds(i) \o FlattenSeq(NodeLines(i))
             /\ Bounds(i) \in Seq(Lines)
             /\ \A e \in 1..1 + slaves : AddressLine(i, e) \in Lines
             /\ Texts[i] \in Seq(Lines)
  <2>1. /\ i \in Nat /\ Ranges[i].min \in Nat /\ Ranges[i].max \in Nat
        /\ Ranges[i].master \in ToSet(Masters)
    BY <1>1 DEF RangeRecords
  <2>2. Bounds(i) \in Seq(Lines)
    <3>1. /\ Line(Width(n) - Width(i), "integer", Ranges[i].min) \in Lines
          /\ Line(Indent(n) + Width(3 + slaves) - Width(2), "integer", Ranges[i].max) \in Lines
      <4>1. \A x, y, z \in Nat : x - z \in Int /\ x + y - z \in Int
        OBVIOUS
      <4>2. /\ Width(n) - Width(i) \in Int
            /\ Indent(n) + Width(3 + slaves) - Width(2) \in Int
        BY <1>2, <1>3, <2>1, <4>1
      <4>3. \A x \in Int, y \in Nat : Line(x, "integer", y) \in Lines
        BY DEF Line, Lines
      <4>4. QED
        BY <2>1, <4>2, <4>3
    <3>2. \A a, b \in Lines : <<a, b>> \in Seq(Lines)
      OBVIOUS
    <3>3. QED
      BY <3>1, <3>2 DEF Bounds
  <2>3. ASSUME NEW e \in 1..1 + slaves PROVE AddressLine(i, e) \in Lines
    <3>1. e + 2 \in Nat
      BY <1>1
    <3>2. \A x, y, z \in Nat : x + y - z \in Int
      OBVIOUS
    <3>3. Indent(n) + Width(3 + slaves) - Width(e + 2) \in Int
      BY <1>2, <1>3, <3>1, <3>2
    <3>4. \A x \in Int, y \in ToSet(Masters) \cup {Replica} :
            Line(x, "address", y) \in Lines
      BY DEF Line, Lines
    <3>5. QED
      BY <2>1, <3>3, <3>4 DEF AddressLine
  <2>4. NodeLines(i) \in Seq(Seq(Lines)) /\ Len(NodeLines(i)) = 1 + slaves
    <3>1. \A e \in 1..1 + slaves : <<AddressLine(i, e), PortLine>> \in Seq(Lines)
      <4>1. \A a, b \in Lines : <<a, b>> \in Seq(Lines)
        OBVIOUS
      <4>2. QED
        BY <1>4, <2>3, <4>1
    <3>2. 1 + slaves \in Nat
      BY <1>1
    <3>3. \A f \in [1..1 + slaves -> Seq(Lines)] :
            f \in Seq(Seq(Lines)) /\ Len(f) = 1 + slaves
      BY <3>2
    <3>4. NodeLines(i) \in [1..1 + slaves -> Seq(Lines)]
      BY <3>1 DEF NodeLines
    <3>5. QED
      BY <3>3, <3>4
  <2>5. Texts[i] = Bounds(i) \o FlattenSeq(NodeLines(i))
    <3>1. Texts[i] = RangeText(Ranges[i], i, n)
      BY DEF Texts
    <3>2. (3 + slaves) - 2 = 1 + slaves
      BY <1>1
    <3>3. NodeLines(i) = [e \in 1..(3 + slaves) - 2 |->
            <<Line(Indent(n) + Width(3 + slaves) - Width(e + 2), "address",
                   IF e = 1 THEN Ranges[i].master ELSE Replica),
              Line(Indent(n) + Indent(3 + slaves), "integer", Port)>>]
      BY <3>2 DEF NodeLines, AddressLine, PortLine
    <3>4. QED
      BY <3>1, <3>3 DEF RangeText, Bounds
  <2>6. Texts[i] \in Seq(Lines)
    BY <2>2, <2>4, <2>5, FlattenMembers, ConcatFacts
  <2>7. QED
    BY <2>2, <2>3, <2>4, <2>5, <2>6
<1>6. Texts \in Seq(Seq(Lines)) /\ Len(Texts) = n
  <2>1. Texts = [i \in 1..n |-> Texts[i]]
    BY DEF Texts
  <2>2. QED
    BY <1>1, <1>5, <2>1
<1>7. Ranges # <<>> => Text = FlattenSeq(Texts)
  <2>1. Ranges # <<>> => Len(Ranges) # 0
    BY <1>1, EmptySeq
  <2>2. QED
    BY <2>1 DEF Text, Texts
<1>8. <<PortLine>> \in Seq(Lines)
  BY <1>4
<1>9. QED
  BY <1>1, <1>5, <1>6, <1>7, <1>8

LEMMA LinesTyped ==
  ASSUME ClusterTypes, Ranges # <<>>
  PROVE  /\ PortLine \in Lines
         /\ \A i \in 1..Len(Ranges), e \in 1..1 + slaves : AddressLine(i, e) \in Lines
<1>1. Ranges \in Seq(RangeRecords) /\ Len(Ranges) \in Nat
  BY RangesFacts, LenProperties
<1>2. 1 \in 1..Len(Ranges)
  <2>1. Len(Ranges) # 0
    BY <1>1, EmptySeq
  <2>2. QED
    BY <1>1, <2>1
<1>3. <<PortLine>> \in Seq(Lines)
  BY <1>2, TextFacts
<1>4. PortLine \in Lines
  <2>1. <<PortLine>> # <<>> /\ Head(<<PortLine>>) = PortLine
    OBVIOUS
  <2>2. QED
    BY <1>3, <2>1, TailFacts
<1>5. QED
  BY <1>4, TextFacts

-----------------------------------------------------------------------------
\* One or two lines before others.
LEMMA OneBefore ==
  ASSUME NEW S, NEW a \in S, NEW x \in Seq(S)
  PROVE  /\ <<a>> \o x \in Seq(S) /\ <<a>> \o x # <<>> /\ (<<a>> \o x)[1] = a
         /\ Tail(<<a>> \o x) = x
<1>1. <<a>> \in Seq(S) /\ <<a>> # <<>> /\ Head(<<a>>) = a /\ Tail(<<a>>) = <<>>
  OBVIOUS
<1>2. /\ <<a>> \o x \in Seq(S) /\ <<a>> \o x # <<>> /\ Head(<<a>> \o x) = a
      /\ Tail(<<a>> \o x) = <<>> \o x
  BY <1>1, HeadOfTwo, ConcatFacts
<1>3. <<>> \o x = x
  BY ConcatEmptySeq
<1>4. QED
  BY <1>2, <1>3, TailFacts

LEMMA TwoBefore ==
  ASSUME NEW S, NEW a \in S, NEW b \in S, NEW x \in Seq(S)
  PROVE  LET q == <<a, b>> \o x
         IN /\ q \in Seq(S) /\ q # <<>> /\ Len(q) > 1 /\ q[1] = a /\ q[2] = b
            /\ Tail(q) = <<b>> \o x /\ SubSeq(q, 3, Len(q)) = x
<1> DEFINE q == <<a, b>> \o x
           t == <<b>> \o x
<1>1. /\ <<a>> \in Seq(S) /\ <<b>> \in Seq(S) /\ <<a, b>> = <<a>> \o <<b>>
  <2>1. <<a>> \in Seq(S) /\ <<b>> \in Seq(S)
    OBVIOUS
  <2>2. Append(<<a>>, b) = <<a, b>>
    <3>1. Append(<<>>, a) = <<a>>
      OBVIOUS
    <3>2. QED
      BY <3>1, AppendedValues
  <2>3. QED
    BY <2>1, <2>2, AppendIsConcat
<1>2. q = <<a>> \o t
  BY <1>1, ConcatAssociative
<1>3. t \in Seq(S) /\ t # <<>> /\ t[1] = b /\ Tail(t) = x
  BY OneBefore
<1>4. q \in Seq(S) /\ q # <<>> /\ q[1] = a /\ Tail(q) = t
  BY <1>2, <1>3, OneBefore
<1> HIDE DEF q, t
<1>5. /\ Len(q) \in Nat /\ Len(t) = Len(q) - 1 /\ Len(t) \in Nat \ {0}
      /\ \A i \in 1..Len(q) - 1 : t[i] = q[i + 1]
      /\ Len(x) = Len(t) - 1 /\ \A i \in 1..Len(t) - 1 : x[i] = t[i + 1]
  BY <1>3, <1>4, TailFacts
<1>6. Len(q) > 1 /\ q[2] = b
  <2>1. 1 \in 1..Len(q) - 1 /\ 1 + 1 = 2
    BY <1>5
  <2>2. QED
    BY <1>3, <1>5, <2>1
<1>7. SubSeq(q, 3, Len(q)) = x
  <2>1. Tail(q) = SubSeq(q, 2, Len(q))
    BY <1>4, TailIsSubSeq
  <2>2. 2 \in 1..Len(q) /\ Len(q) \in 2..Len(q)
    BY <1>5, <1>6
  <2>3. Tail(SubSeq(q, 2, Len(q))) = SubSeq(q, 2 + 1, Len(q))
    BY <1>4, <2>2, HeadTailOfSubSeq
  <2>4. 2 + 1 = 3
    OBVIOUS
  <2>5. QED
    BY <1>3, <1>4, <2>1, <2>3, <2>4
<1>8. QED
  BY <1>4, <1>6, <1>7 DEF q, t

-----------------------------------------------------------------------------
\* What parseSlots has made of the ranges it has read.
Addresses == [of : ToSet(Masters) \cup {NoOne, Replica}, whole : BOOLEAN]
Places == [ip : Addresses, port : Nat]
InfoRecords == [min : Nat, max : Nat, master : Places, slave : Seq(Places)]

\* What a range is to become, and what its last one is before the address, and
\* before the port, of node e.
MasterPlace(i) == [ip |-> Address(Ranges[i].master), port |-> Port]
AtNode(info, i, e) ==
  \/ e = 1 /\ info.master = NoPlace /\ info.slave = <<>>
  \/ e > 1 /\ info.master = MasterPlace(i)
AtPort(info, i, e) ==
  \/ /\ e = 1 /\ info.slave = <<>>
     /\ info.master = [ip |-> Address(Ranges[i].master), port |-> 0]
  \/ e > 1 /\ info.master = MasterPlace(i) /\ info.slave # <<>>

\* The text of the ranges from i on, and that of nodes of range i before it.
TextFrom(i) == JoinedFrom(Texts, i)
NodesFrom(i, e) == JoinedFrom(NodeLines(i), e) \o TextFrom(i + 1)

\* The ranges that have been read are those that were printed.
ReadOK ==
  /\ infos \in Seq(InfoRecords) /\ Len(infos) <= Len(Ranges)
  /\ \A j \in 1..Len(infos) : infos[j].min = Ranges[j].min /\ infos[j].max = Ranges[j].max
  /\ \A j \in 1..Len(infos) - 1 : infos[j].master = MasterPlace(j)

PlainInv ==
  /\ parser = "runs" /\ ReadOK
  /\ LET i == Len(infos)
     IN \/ infos = <<>> /\ lines = TextFrom(1)
        \/ /\ infos # <<>>
           /\ \E e \in 1..2 + slaves : AtNode(infos[i], i, e) /\ lines = NodesFrom(i, e)
        \/ /\ infos # <<>>
           /\ \E e \in 1..1 + slaves : /\ AtPort(infos[i], i, e)
                                       /\ lines = <<PortLine>> \o NodesFrom(i, e + 1)

FewLines == Len(Ranges) < Base /\ 3 + slaves < Base

\* Its lines are told apart by their blanks.
LEMMA PlainBlanks ==
  ASSUME ClusterTypes, FewLines
  PROVE  /\ \A i \in 1..Len(Ranges) :
              /\ Bounds(i)[1].blanks = 0 /\ Bounds(i)[1].val = Ranges[i].min
              /\ Bounds(i)[2].val = Ranges[i].max
         /\ \A i \in 1..Len(Ranges), e \in 1..1 + slaves : AddressLine(i, e).blanks = 3
         /\ PortLine.blanks = 6
<1>1. Len(Ranges) \in Nat /\ slaves \in Nat /\ Base \in Nat /\ Base > 4
  BY TextFacts, SlotConstants DEF ClusterTypes
<1>2. /\ Width(Len(Ranges)) = 1 /\ Width(3 + slaves) = 1
      /\ Indent(Len(Ranges)) = 3 /\ Indent(3 + slaves) = 3
  <2>1. Width(Len(Ranges)) = 1 /\ Width(3 + slaves) = 1
    BY <1>1, WidthFacts DEF FewLines
  <2>2. 1 + 2 = 3
    OBVIOUS
  <2>3. QED
    BY <2>1, <2>2 DEF Indent
<1>3. ASSUME NEW i \in 1..Len(Ranges)
      PROVE  /\ Bounds(i)[1].blanks = 0 /\ Bounds(i)[1].val = Ranges[i].min
             /\ Bounds(i)[2].val = Ranges[i].max
  <2>1. i \in Nat /\ i < Base
    BY <1>1 DEF FewLines
  <2>2. Width(i) = 1
    BY <2>1, WidthFacts
  <2>3. Width(Len(Ranges)) - Width(i) = 0
    BY <1>2, <2>2
  <2>4. Bounds(i)[1] = Line(0, "integer", Ranges[i].min)
    BY <2>3 DEF Bounds
  <2>5. QED
    BY <2>4 DEF Bounds, Line
<1>4. ASSUME NEW i \in 1..Len(Ranges), NEW e \in 1..1 + slaves
      PROVE  AddressLine(i, e).blanks = 3
  <2>1. e + 2 \in Nat /\ e + 2 < Base
    BY <1>1 DEF FewLines
  <2>2. Width(e + 2) = 1
    BY <2>1, WidthFacts
  <2>3. Indent(Len(Ranges)) + Width(3 + slaves) - Width(e + 2) = 3
    BY <1>2, <2>2
  <2>4. QED
    BY <2>3 DEF AddressLine, Line
<1>5. PortLine.blanks = 6
  <2>1. Indent(Len(Ranges)) + Indent(3 + slaves) = 6
    BY <1>2
  <2>2. QED
    BY <2>1 DEF PortLine, Line
<1>6. QED
  BY <1>3, <1>4, <1>5

\* The text of a range is that of its bounds, of its nodes, and the next.
LEMMA PartsOfText ==
  ASSUME ClusterTypes, Ranges # <<>>
  PROVE  /\ Text = TextFrom(1) /\ TextFrom(Len(Ranges) + 1) = <<>>
         /\ \A i \in 1..Len(Ranges) + 1 : TextFrom(i) \in Seq(Lines)
         /\ \A i \in 1..Len(Ranges) :
              /\ TextFrom(i) = Bounds(i) \o NodesFrom(i, 1)
              /\ NodesFrom(i, 2 + slaves) = TextFrom(i + 1)
              /\ \A e \in 1..2 + slaves : NodesFrom(i, e) \in Seq(Lines)
              /\ \A e \in 1..1 + slaves :
                   NodesFrom(i, e) = <<AddressLine(i, e), PortLine>> \o NodesFrom(i, e + 1)
<1>1. /\ Texts \in Seq(Seq(Lines)) /\ Len(Texts) = Len(Ranges) /\ Len(Ranges) \in Nat
      /\ Text = FlattenSeq(Texts) /\ slaves \in Nat
  BY TextFacts DEF ClusterTypes
<1>2. /\ Text = TextFrom(1) /\ TextFrom(Len(Ranges) + 1) = <<>>
      /\ \A i \in 1..Len(Ranges) + 1 : TextFrom(i) \in Seq(Lines)
      /\ \A i \in 1..Len(Ranges) : TextFrom(i) = Texts[i] \o TextFrom(i + 1)
  BY <1>1, JoinedFromFacts DEF TextFrom
<1>3. ASSUME NEW i \in 1..Len(Ranges)
      PROVE  /\ TextFrom(i) = Bounds(i) \o NodesFrom(i, 1)
             /\ NodesFrom(i, 2 + slaves) = TextFrom(i + 1)
             /\ \A e \in 1..2 + slaves : NodesFrom(i, e) \in Seq(Lines)
             /\ \A e \in 1..1 + slaves :
                  NodesFrom(i, e) = <<AddressLine(i, e), PortLine>> \o NodesFrom(i, e + 1)
  <2> DEFINE ss == NodeLines(i)
             rest == TextFrom(i + 1)
  <2>1. /\ ss \in Seq(Seq(Lines)) /\ Len(ss) = 1 + slaves
        /\ Texts[i] = Bounds(i) \o FlattenSeq(ss) /\ Bounds(i) \in Seq(Lines)
    BY TextFacts
  <2>2. i + 1 \in 1..Len(Ranges) + 1
    BY <1>1
  <2>3. rest \in Seq(Lines)
    BY <1>2, <2>2
  <2>4. /\ JoinedFrom(ss, 1) = FlattenSeq(ss)
        /\ JoinedFrom(ss, (1 + slaves) + 1) = <<>>
        /\ \A e \in 1..(1 + slaves) + 1 : JoinedFrom(ss, e) \in Seq(Lines)
        /\ \A e \in 1..1 + slaves : /\ ss[e] \in Seq(Lines)
                                   /\ JoinedFrom(ss, e) = ss[e] \o JoinedFrom(ss, e + 1)
    BY <2>1, JoinedFromFacts
  <2>5. (1 + slaves) + 1 = 2 + slaves /\ 1 \in 1..2 + slaves
    BY <1>1
  <2>6. \A e \in 1..1 + slaves : ss[e] = <<AddressLine(i, e), PortLine>>
    BY DEF NodeLines
  <2> HIDE DEF ss, rest
  <2>7. \A a, b, c \in Seq(Lines) : (a \o b) \o c = a \o (b \o c)
    BY ConcatAssociative
  <2>8. \A e : NodesFrom(i, e) = JoinedFrom(ss, e) \o rest
    BY DEF NodesFrom, ss, rest
  <2>9. \A e \in 1..2 + slaves : NodesFrom(i, e) \in Seq(Lines)
    <3>1. \A a, b \in Seq(Lines) : a \o b \in Seq(Lines)
      BY ConcatFacts
    <3>2. \A e \in 1..2 + slaves : JoinedFrom(ss, e) \in Seq(Lines)
      BY <2>4, <2>5
    <3>3. \A e \in 1..2 + slaves : JoinedFrom(ss, e) \o rest \in Seq(Lines)
      BY <2>3, <3>1, <3>2
    <3>4. QED
      BY <2>8, <3>3
  <2>10. TextFrom(i) = Bounds(i) \o NodesFrom(i, 1)
    <3>1. TextFrom(i) = (Bounds(i) \o JoinedFrom(ss, 1)) \o rest
      BY <1>2, <2>1, <2>4 DEF rest
    <3>2. JoinedFrom(ss, 1) \in Seq(Lines)
      BY <2>4, <2>5
    <3>3. TextFrom(i) = Bounds(i) \o (JoinedFrom(ss, 1) \o rest)
      BY <2>1, <2>3, <2>7, <3>1, <3>2
    <3>4. QED
      BY <2>8, <3>3
  <2>11. NodesFrom(i, 2 + slaves) = rest
    <3>1. <<>> \o rest = rest
      BY <2>3, ConcatEmptySeq
    <3>2. QED
      BY <2>4, <2>5, <2>8, <3>1
  <2>12. ASSUME NEW e \in 1..1 + slaves
         PROVE  NodesFrom(i, e) = <<AddressLine(i, e), PortLine>> \o NodesFrom(i, e + 1)
    <3>1. e + 1 \in 1..(1 + slaves) + 1
      BY <1>1
    <3>2. JoinedFrom(ss, e + 1) \in Seq(Lines) /\ ss[e] \in Seq(Lines)
      BY <2>4, <3>1
    <3>3. NodesFrom(i, e) = (ss[e] \o JoinedFrom(ss, e + 1)) \o rest
      BY <2>4, <2>8
    <3>4. NodesFrom(i, e) = ss[e] \o (JoinedFrom(ss, e + 1) \o rest)
      BY <2>3, <2>7, <3>2, <3>3
    <3>5. QED
      BY <2>6, <2>8, <3>4
  <2>13. QED
    BY <2>9, <2>10, <2>11, <2>12 DEF rest
<1>4. QED
  BY <1>2, <1>3

-----------------------------------------------------------------------------
\* The cluster and what is printed of it stay.
LEMMA RangesStay ==
  ASSUME UNCHANGED clusterVars
  PROVE  Ranges' = Ranges
BY DEF clusterVars, Ranges, RangesOf, RangeAt, RunEnd

LEMMA ClusterStays ==
  ASSUME UNCHANGED clusterVars
  PROVE  /\ ClusterTypes' <=> ClusterTypes
         /\ Text' = Text /\ FewLines' <=> FewLines
         /\ slaves' = slaves /\ PortLine' = PortLine
         /\ \A i : TextFrom(i)' = TextFrom(i) /\ MasterPlace(i)' = MasterPlace(i)
         /\ \A i, e : NodesFrom(i, e)' = NodesFrom(i, e)
         /\ \A info, i, e : /\ AtNode(info, i, e)' <=> AtNode(info, i, e)
                            /\ AtPort(info, i, e)' <=> AtPort(info, i, e)
<1>1. owner' = owner /\ digits' = digits /\ slaves' = slaves
  BY DEF clusterVars
<1>2. ClusterTypes' <=> ClusterTypes
  BY <1>1 DEF ClusterTypes
<1>3. Ranges' = Ranges
  BY RangesStay
<1>4. \A i : Texts' = Texts /\ NodeLines(i)' = NodeLines(i) /\ PortLine' = PortLine
  BY <1>1, <1>3 DEF Texts, NodeLines, AddressLine, PortLine, RangeText
<1>5. Text' = Text
  BY <1>1, <1>3 DEF Text, RangeText
<1>6. \A i : TextFrom(i)' = TextFrom(i)
  BY <1>4 DEF TextFrom
<1>7. \A i, e : NodesFrom(i, e)' = NodesFrom(i, e)
  BY <1>4, <1>6 DEF NodesFrom
<1>8. \A i : MasterPlace(i)' = MasterPlace(i)
  BY <1>1, <1>3 DEF MasterPlace, Address
<1>9. \A info, i, e : /\ AtNode(info, i, e)' <=> AtNode(info, i, e)
                      /\ AtPort(info, i, e)' <=> AtPort(info, i, e)
  BY <1>1, <1>3, <1>8 DEF AtNode, AtPort, Address
<1>10. FewLines' <=> FewLines
  BY <1>1, <1>3 DEF FewLines
<1>11. QED
  BY <1>1, <1>2, <1>3, <1>4, <1>5, <1>6, <1>7, <1>8, <1>9, <1>10

\* The last of a sequence is replaced.
LEMMA LastReplaced ==
  ASSUME NEW S, NEW q \in Seq(S), q # <<>>, NEW x \in S
  PROVE  LET r == [q EXCEPT ![Len(q)] = x]
         IN /\ r \in Seq(S) /\ Len(r) = Len(q) /\ r # <<>> /\ r[Len(q)] = x
            /\ \A j \in 1..Len(q) - 1 : r[j] = q[j]
<1> DEFINE r == [q EXCEPT ![Len(q)] = x]
<1>1. Len(q) \in Nat /\ Len(q) > 0 /\ DOMAIN q = 1..Len(q)
  BY TailFacts, LenProperties
<1>2. r \in Seq(S) /\ Len(r) = Len(q)
  BY <1>1, ExceptSeq
<1>3. r[Len(q)] = x /\ \A j \in 1..Len(q) - 1 : r[j] = q[j]
  <2>1. \A i \in DOMAIN q : r[i] = IF i = Len(q) THEN x ELSE q[i]
    OBVIOUS
  <2> HIDE DEF r
  <2>2. Len(q) \in DOMAIN q /\ \A j \in 1..Len(q) - 1 : j \in DOMAIN q /\ j # Len(q)
    <3>1. \A n \in Nat : n > 0 => n \in 1..n /\ \A j \in 1..n - 1 : j \in 1..n /\ j # n
      OBVIOUS
    <3>2. QED
      BY <1>1, <3>1, Zenon
  <2>3. QED
    BY <2>1, <2>2
<1>4. r # <<>>
  <2>1. Len(<<>>) = 0
    OBVIOUS
  <2> HIDE DEF r
  <2>2. QED
    BY <1>1, <1>2, <2>1
<1>5. QED
  BY <1>2, <1>3, <1>4

\* What parseSlots has before it.
LEMMA PlainForms ==
  ASSUME ClusterTypes, Ranges # <<>>, PlainInv
  PROVE  LET i == Len(infos)
         IN \/ /\ lines = TextFrom(i + 1)
               /\ \A j \in 1..i : infos[j].master = MasterPlace(j)
            \/ /\ infos # <<>> /\ i \in 1..Len(Ranges)
               /\ \E e \in 1..1 + slaves :
                    /\ AtNode(infos[i], i, e)
                    /\ lines = <<AddressLine(i, e), PortLine>> \o NodesFrom(i, e + 1)
            \/ /\ infos # <<>> /\ i \in 1..Len(Ranges)
               /\ \E e \in 1..1 + slaves : /\ AtPort(infos[i], i, e)
                                           /\ lines = <<PortLine>> \o NodesFrom(i, e + 1)
<1> DEFINE i == Len(infos)
<1>1. infos \in Seq(InfoRecords) /\ i <= Len(Ranges)
  BY DEF PlainInv, ReadOK
<1>2. i \in Nat /\ (infos # <<>> => i > 0) /\ Len(Ranges) \in Nat /\ slaves \in Nat
  BY <1>1, LenProperties, EmptySeq, TextFacts DEF ClusterTypes
<1>3. infos # <<>> => i \in 1..Len(Ranges)
  BY <1>1, <1>2
<1>4. CASE infos = <<>> /\ lines = TextFrom(1)
  <2>1. i = 0 /\ i + 1 = 1 /\ 1..i = {}
    BY <1>4
  <2>2. QED
    BY <1>4, <2>1
<1>5. CASE /\ infos # <<>>
           /\ \E e \in 1..2 + slaves : AtNode(infos[i], i, e) /\ lines = NodesFrom(i, e)
  <2>1. PICK e \in 1..2 + slaves : AtNode(infos[i], i, e) /\ lines = NodesFrom(i, e)
    BY <1>5
  <2>2. CASE e \in 1..1 + slaves
    BY <1>3, <1>5, <2>1, <2>2, PartsOfText
  <2>3. CASE e = 2 + slaves
    <3>1. lines = TextFrom(i + 1)
      BY <1>3, <1>5, <2>1, <2>3, PartsOfText
    <3>2. infos[i].master = MasterPlace(i)
      <4>1. e # 1
        BY <1>2, <2>3
      <4>2. QED
        BY <2>1, <4>1 DEF AtNode
    <3>3. \A j \in 1..i : j = i \/ j \in 1..i - 1
      BY <1>2
    <3>4. \A j \in 1..i : infos[j].master = MasterPlace(j)
      BY <3>2, <3>3 DEF PlainInv, ReadOK
    <3>5. QED
      BY <3>1, <3>4
  <2>4. e \in 1..1 + slaves \/ e = 2 + slaves
    BY <1>2
  <2>5. QED
    BY <2>2, <2>3, <2>4
<1>6. CASE /\ infos # <<>>
           /\ \E e \in 1..1 + slaves : /\ AtPort(infos[i], i, e)
                                       /\ lines = <<PortLine>> \o NodesFrom(i, e + 1)
  BY <1>3, <1>6
<1>7. QED
  BY <1>4, <1>5, <1>6 DEF PlainInv

\* The first lines of the text of a range, and of a node.
LEMMA FirstOfRange ==
  ASSUME ClusterTypes, Ranges # <<>>, NEW n \in 1..Len(Ranges)
  PROVE  LET q == TextFrom(n)
         IN /\ q # <<>> /\ Len(q) > 1 /\ q[1] = Bounds(n)[1] /\ q[2] = Bounds(n)[2]
            /\ SubSeq(q, 3, Len(q)) = NodesFrom(n, 1)
<1> DEFINE rest == NodesFrom(n, 1)
           q == TextFrom(n)
<1>1. q = Bounds(n) \o rest /\ rest \in Seq(Lines)
  <2>1. 1 \in 1..2 + slaves
    BY DEF ClusterTypes
  <2>2. QED
    BY <2>1, PartsOfText
<1>2. Bounds(n) \in Seq(Lines) /\ Len(Bounds(n)) = 2
  BY TextFacts DEF Bounds
<1>3. Bounds(n)[1] \in Lines /\ Bounds(n)[2] \in Lines
  BY <1>2
<1>4. Bounds(n) = <<Bounds(n)[1], Bounds(n)[2]>>
  BY DEF Bounds
<1> HIDE DEF rest, q
<1>5. \A a, b \in Lines :
        LET t == <<a, b>> \o rest
        IN /\ t # <<>> /\ Len(t) > 1 /\ t[1] = a /\ t[2] = b
           /\ SubSeq(t, 3, Len(t)) = rest
  BY <1>1, TwoBefore
<1>6. q = <<Bounds(n)[1], Bounds(n)[2]>> \o rest
  BY <1>1, <1>4, Zenon
<1>7. /\ q # <<>> /\ Len(q) > 1 /\ q[1] = Bounds(n)[1] /\ q[2] = Bounds(n)[2]
      /\ SubSeq(q, 3, Len(q)) = rest
  BY <1>3, <1>5, <1>6, Zenon
<1>8. QED
  BY <1>7 DEF q, rest

LEMMA FirstOfNode ==
  ASSUME ClusterTypes, Ranges # <<>>, NEW i \in 1..Len(Ranges), NEW e \in 1..1 + slaves
  PROVE  /\ LET q == <<AddressLine(i, e), PortLine>> \o NodesFrom(i, e + 1)
            IN /\ q # <<>> /\ q[1] = AddressLine(i, e)
               /\ Tail(q) = <<PortLine>> \o NodesFrom(i, e + 1)
         /\ LET q == <<PortLine>> \o NodesFrom(i, e + 1)
            IN q # <<>> /\ q[1] = PortLine /\ Tail(q) = NodesFrom(i, e + 1)
<1>1. e + 1 \in 1..2 + slaves
  BY DEF ClusterTypes
<1>2. NodesFrom(i, e + 1) \in Seq(Lines)
  BY <1>1, PartsOfText
<1>3. AddressLine(i, e) \in Lines /\ PortLine \in Lines
  BY LinesTyped
<1>4. \A x \in Seq(Lines), a, b \in Lines :
        /\ <<a, b>> \o x # <<>> /\ (<<a, b>> \o x)[1] = a
        /\ Tail(<<a, b>> \o x) = <<b>> \o x
        /\ <<b>> \o x # <<>> /\ (<<b>> \o x)[1] = b /\ Tail(<<b>> \o x) = x
  <2>1. ASSUME NEW x \in Seq(Lines), NEW a \in Lines, NEW b \in Lines
        PROVE  /\ <<a, b>> \o x # <<>> /\ (<<a, b>> \o x)[1] = a
               /\ Tail(<<a, b>> \o x) = <<b>> \o x
    BY TwoBefore
  <2>2. ASSUME NEW x \in Seq(Lines), NEW b \in Lines
        PROVE  <<b>> \o x # <<>> /\ (<<b>> \o x)[1] = b /\ Tail(<<b>> \o x) = x
    BY OneBefore
  <2>3. QED
    BY <2>1, <2>2, Zenon
<1> DEFINE x == NodesFrom(i, e + 1)
           a == AddressLine(i, e)
<1> HIDE DEF x, a
<1>5. /\ <<a, PortLine>> \o x # <<>> /\ (<<a, PortLine>> \o x)[1] = a
      /\ Tail(<<a, PortLine>> \o x) = <<PortLine>> \o x
      /\ <<PortLine>> \o x # <<>> /\ (<<PortLine>> \o x)[1] = PortLine
      /\ Tail(<<PortLine>> \o x) = x
  <2>1. x \in Seq(Lines) /\ a \in Lines
    BY <1>2, <1>3 DEF x, a
  <2>2. QED
    BY <1>3, <1>4, <2>1, ZenonT(40)
<1>6. QED
  BY <1>5 DEF x, a

\* What it has before it, told by the blanks of the next line.
LEMMA PlainCases ==
  ASSUME ClusterTypes, FewLines, Ranges # <<>>, PlainInv, lines # <<>>
  PROVE  LET i == Len(infos)
         IN \/ /\ lines[1].blanks = 0
               /\ i + 1 \in 1..Len(Ranges) /\ lines = TextFrom(i + 1)
               /\ \A j \in 1..i : infos[j].master = MasterPlace(j)
            \/ /\ lines[1].blanks = 3
               /\ infos # <<>> /\ i \in 1..Len(Ranges)
               /\ \E e \in 1..1 + slaves :
                    /\ AtNode(infos[i], i, e)
                    /\ lines = <<AddressLine(i, e), PortLine>> \o NodesFrom(i, e + 1)
            \/ /\ lines[1].blanks = 6
               /\ infos # <<>> /\ i \in 1..Len(Ranges)
               /\ \E e \in 1..1 + slaves : /\ AtPort(infos[i], i, e)
                                           /\ lines = <<PortLine>> \o NodesFrom(i, e + 1)
<1> DEFINE i == Len(infos)
<1>1. i \in Nat /\ i <= Len(Ranges) /\ Len(Ranges) \in Nat
  BY LenProperties, TextFacts DEF PlainInv, ReadOK
<1>2. CASE /\ lines = TextFrom(i + 1)
           /\ \A j \in 1..i : infos[j].master = MasterPlace(j)
  <2>1. i # Len(Ranges)
    BY <1>2, PartsOfText
  <2>2. i + 1 \in 1..Len(Ranges)
    BY <1>1, <2>1
  <2>3. lines[1].blanks = 0
    BY <1>2, <2>2, FirstOfRange, PlainBlanks
  <2>4. QED
    BY <1>2, <2>2, <2>3
<1>3. CASE /\ infos # <<>> /\ i \in 1..Len(Ranges)
           /\ \E e \in 1..1 + slaves :
                /\ AtNode(infos[i], i, e)
                /\ lines = <<AddressLine(i, e), PortLine>> \o NodesFrom(i, e + 1)
  <2>1. lines[1].blanks = 3
    BY <1>3, FirstOfNode, PlainBlanks
  <2>2. QED
    BY <1>3, <2>1
<1>4. CASE /\ infos # <<>> /\ i \in 1..Len(Ranges)
           /\ \E e \in 1..1 + slaves : /\ AtPort(infos[i], i, e)
                                       /\ lines = <<PortLine>> \o NodesFrom(i, e + 1)
  <2>1. lines[1].blanks = 6
    BY <1>4, FirstOfNode, PlainBlanks
  <2>2. QED
    BY <1>4, <2>1
<1>5. QED
  BY <1>2, <1>3, <1>4, PlainForms

\* What a step makes of them is of that form again.
LEMMA PlainAgain ==
  ASSUME UNCHANGED clusterVars, parser' = "runs",
         infos' \in Seq(InfoRecords), infos' # <<>>, Len(infos') <= Len(Ranges),
         \A j \in 1..Len(infos') : /\ infos'[j].min = Ranges[j].min
                                   /\ infos'[j].max = Ranges[j].max,
         \A j \in 1..Len(infos') - 1 : infos'[j].master = MasterPlace(j),
         \/ \E e \in 1..2 + slaves : /\ AtNode(infos'[Len(infos')], Len(infos'), e)
                                     /\ lines' = NodesFrom(Len(infos'), e)
         \/ \E e \in 1..1 + slaves :
              /\ AtPort(infos'[Len(infos')], Len(infos'), e)
              /\ lines' = <<PortLine>> \o NodesFrom(Len(infos'), e + 1)
  PROVE  PlainInv'
<1>1. ReadOK'
  <2>1. Ranges' = Ranges /\ \A j : MasterPlace(j)' = MasterPlace(j)
    <3>1. Ranges' = Ranges
      BY RangesStay
    <3>2. ASSUME NEW j PROVE MasterPlace(j)' = MasterPlace(j)
      BY ClusterStays
    <3>3. QED
      BY <3>1, <3>2
  <2>2. /\ \A j \in 1..Len(infos') : /\ infos'[j].min = Ranges'[j].min
                                     /\ infos'[j].max = Ranges'[j].max
        /\ Len(infos') <= Len(Ranges')
    BY <2>1
  <2>3. \A j \in 1..Len(infos') - 1 : infos'[j].master = MasterPlace(j)'
    BY <2>1
  <2>4. QED
    BY <2>2, <2>3 DEF ReadOK
<1>2. slaves' = slaves /\ PortLine' = PortLine
  BY ClusterStays
<1>3. ASSUME NEW e \in 1..2 + slaves, AtNode(infos'[Len(infos')], Len(infos'), e),
             lines' = NodesFrom(Len(infos'), e)
      PROVE  PlainInv'
  <2>1. /\ AtNode(infos[Len(infos)], Len(infos), e)'
        /\ lines' = NodesFrom(Len(infos), e)'
    BY <1>3, ClusterStays
  <2>2. QED
    BY <1>1, <1>2, <2>1 DEF PlainInv
<1>4. ASSUME NEW e \in 1..1 + slaves, AtPort(infos'[Len(infos')], Len(infos'), e),
             lines' = <<PortLine>> \o NodesFrom(Len(infos'), e + 1)
      PROVE  PlainInv'
  <2>1. /\ AtPort(infos[Len(infos)], Len(infos), e)'
        /\ NodesFrom(Len(infos), e + 1)' = NodesFrom(Len(infos'), e + 1)
    BY <1>4, ClusterStays
  <2>2. QED
    BY <1>1, <1>2, <1>4, <2>1 DEF PlainInv
<1>5. QED
  BY <1>3, <1>4

LEMMA PlainBounds ==
  ASSUME ClusterTypes, FewLines, Ranges # <<>>, PlainInv, ParseBounds
  PROVE  PlainInv'
<1> DEFINE i == Len(infos)
           n == i + 1
           rest == NodesFrom(n, 1)
           r == [min |-> Ranges[n].min, max |-> Ranges[n].max,
                 master |-> NoPlace, slave |-> <<>>]
<1>1. /\ infos \in Seq(InfoRecords) /\ i <= Len(Ranges) /\ i \in Nat
      /\ Len(Ranges) \in Nat /\ slaves \in Nat /\ parser = "runs"
      /\ \A j \in 1..i : infos[j].min = Ranges[j].min /\ infos[j].max = Ranges[j].max
  BY LenProperties, TextFacts DEF PlainInv, ReadOK, ClusterTypes
<1>2. lines # <<>> /\ lines[1].blanks = 0
  BY DEF ParseBounds, Running, This
<1>3. /\ lines = TextFrom(n) /\ \A j \in 1..i : infos[j].master = MasterPlace(j)
      /\ n \in 1..Len(Ranges)
  BY <1>2, PlainCases
<1>4. n \in 1..Len(Ranges)
  BY <1>3
<1>5. /\ lines[1] = Bounds(n)[1] /\ lines[2] = Bounds(n)[2] /\ Len(lines) > 1
      /\ SubSeq(lines, 3, Len(lines)) = rest
  BY <1>3, FirstOfRange
<1>6. lines[1].val = Ranges[n].min /\ lines[2].val = Ranges[n].max
  BY <1>4, <1>5, PlainBlanks
<1>7. infos' = Append(infos, r) /\ lines' = rest /\ parser' = "runs" /\ UNCHANGED clusterVars
  BY <1>1, <1>5, <1>6 DEF ParseBounds, This
<1>8. r \in InfoRecords
  <2>1. Ranges[n].min \in Nat /\ Ranges[n].max \in Nat
    BY <1>4, RangesFacts DEF RangeRecords
  <2>2. NoPlace \in Places /\ <<>> \in Seq(Places)
    BY DEF NoPlace, NoAddress, Places, Addresses
  <2>3. QED
    BY <2>1, <2>2 DEF InfoRecords
<1> HIDE DEF r, rest
<1>9. /\ infos' \in Seq(InfoRecords) /\ Len(infos') = n
      /\ \A j \in 1..i : infos'[j] = infos[j]
      /\ infos'[n] = r
  BY <1>1, <1>7, <1>8, AppendFacts
<1>10. infos' # <<>>
  <2>1. n # 0
    BY <1>1
  <2>2. QED
    BY <1>9, <2>1
<1>11. /\ r.min = Ranges[n].min /\ r.max = Ranges[n].max
       /\ r.master = NoPlace /\ r.slave = <<>>
  BY DEF r
<1>12. n - 1 = i /\ \A j \in 1..n : j \in 1..i \/ j = n
  BY <1>1
<1> HIDE DEF n
<1>13. \A j \in 1..n : infos'[j].min = Ranges[j].min /\ infos'[j].max = Ranges[j].max
  BY <1>1, <1>9, <1>11, <1>12
<1>14. \A j \in 1..n - 1 : infos'[j].master = MasterPlace(j)
  BY <1>3, <1>9, <1>12
<1>15. 1 \in 1..2 + slaves /\ AtNode(infos'[n], n, 1) /\ lines' = NodesFrom(n, 1)
  BY <1>1, <1>7, <1>9, <1>11 DEF AtNode, rest
<1>16. Len(infos') <= Len(Ranges)
  BY <1>1, <1>4, <1>9
<1>17. QED
  BY <1>7, <1>9, <1>10, <1>13, <1>14, <1>15, <1>16, PlainAgain

LEMMA PlainAddress ==
  ASSUME ClusterTypes, FewLines, Ranges # <<>>, PlainInv, ParseAddress
  PROVE  PlainInv'
<1> DEFINE i == Len(infos)
           last == infos[i]
<1>1. /\ infos \in Seq(InfoRecords) /\ i <= Len(Ranges) /\ i \in Nat
      /\ slaves \in Nat /\ parser = "runs"
      /\ \A j \in 1..i : infos[j].min = Ranges[j].min /\ infos[j].max = Ranges[j].max
      /\ \A j \in 1..i - 1 : infos[j].master = MasterPlace(j)
  BY LenProperties DEF PlainInv, ReadOK, ClusterTypes
<1>2. lines # <<>> /\ lines[1].blanks = 3
  BY DEF ParseAddress, Running, This
<1>3. infos # <<>> /\ i \in 1..Len(Ranges)
  BY <1>2, PlainCases
<1>4. PICK e \in 1..1 + slaves :
        /\ AtNode(last, i, e)
        /\ lines = <<AddressLine(i, e), PortLine>> \o NodesFrom(i, e + 1)
  <2>1. \A x : x = 3 => x # 0 /\ x # 6
    OBVIOUS
  <2>2. QED
    BY <1>2, <2>1, PlainCases, Zenon
<1>5. lines[1] = AddressLine(i, e) /\ Tail(lines) = <<PortLine>> \o NodesFrom(i, e + 1)
  BY <1>3, <1>4, FirstOfNode
<1> DEFINE v == IF e = 1 THEN Ranges[i].master ELSE Replica
           a == Address(v)
<1>6. lines[1].val = v
  BY <1>5 DEF AddressLine, Line
<1>7. a \in Addresses /\ v # NoOne
  <2>1. Ranges[i].master \in ToSet(Masters)
    BY <1>3, RangesFacts DEF RangeRecords
  <2>2. QED
    BY <2>1, SlotConstants DEF Address, Addresses
<1>8. last \in InfoRecords
  BY <1>1, <1>3
<1> DEFINE new == IF last.master.ip = NoAddress
                  THEN [last EXCEPT !.master.ip = a]
                  ELSE [last EXCEPT !.slave = Append(@, [ip |-> a, port |-> 0])]
<1>9. infos' = [infos EXCEPT ![i] = new]
  BY <1>3, <1>6 DEF ParseAddress, SetLast, LastInfo, This
<1>10. /\ lines' = <<PortLine>> \o NodesFrom(i, e + 1) /\ parser' = "runs"
       /\ UNCHANGED clusterVars
  BY <1>1, <1>3, <1>5 DEF ParseAddress
<1> HIDE DEF a, v
<1>11. new \in InfoRecords /\ new.min = last.min /\ new.max = last.max /\ AtPort(new, i, e)
  <2>1. /\ last.master \in Places /\ last.slave \in Seq(Places)
        /\ last.min \in Nat /\ last.max \in Nat
    BY <1>8 DEF InfoRecords
  <2>2. CASE e = 1
    <3>1. last.master = NoPlace /\ last.slave = <<>>
      BY <1>4, <2>2 DEF AtNode
    <3>2. last.master.ip = NoAddress
      BY <3>1 DEF NoPlace
    <3>3. new = [last EXCEPT !.master.ip = a]
      BY <3>2
    <3>4. new = [last EXCEPT !.master = [ip |-> a, port |-> 0]]
      BY <1>8, <2>1, <3>1, <3>3 DEF NoPlace, InfoRecords, Places
    <3>5. [ip |-> a, port |-> 0] \in Places
      BY <1>7 DEF Places
    <3> HIDE DEF new
    <3>6. new \in InfoRecords /\ new.min = last.min /\ new.max = last.max
          /\ new.slave = last.slave /\ new.master = [ip |-> a, port |-> 0]
      BY <1>8, <3>4, <3>5 DEF InfoRecords
    <3>7. a = Address(Ranges[i].master)
      BY <2>2 DEF a, v
    <3>8. QED
      BY <2>2, <3>1, <3>6, <3>7 DEF AtPort
  <2>3. CASE e # 1
    <3>1. e > 1 /\ last.master = MasterPlace(i)
      BY <1>4, <2>3 DEF AtNode
    <3>2. last.master.ip # NoAddress
      <4>1. Ranges[i].master # NoOne
        BY <1>3, RangesFacts, SlotConstants DEF RangeRecords
      <4>2. QED
        BY <3>1, <4>1 DEF MasterPlace, Address, NoAddress
    <3>3. new = [last EXCEPT !.slave = Append(@, [ip |-> a, port |-> 0])]
      BY <3>2
    <3>4. [ip |-> a, port |-> 0] \in Places
      BY <1>7 DEF Places
    <3> DEFINE s == Append(last.slave, [ip |-> a, port |-> 0])
    <3>5. s \in Seq(Places) /\ Len(s) = Len(last.slave) + 1 /\ Len(last.slave) \in Nat
      BY <2>1, <3>4, AppendFacts
    <3>6. s # <<>>
      BY <3>5, EmptySeq
    <3>7. new = [last EXCEPT !.slave = s]
      BY <3>3
    <3> HIDE DEF new, s
    <3>8. new \in InfoRecords /\ new.min = last.min /\ new.max = last.max
          /\ new.slave = s /\ new.master = last.master
      BY <1>8, <3>5, <3>7 DEF InfoRecords
    <3>9. QED
      BY <3>1, <3>6, <3>8 DEF AtPort
  <2>4. QED
    BY <2>2, <2>3
<1> HIDE DEF new
<1>12. /\ infos' \in Seq(InfoRecords) /\ Len(infos') = i /\ infos' # <<>>
       /\ infos'[i] = new /\ \A j \in 1..i - 1 : infos'[j] = infos[j]
  BY <1>1, <1>3, <1>9, <1>11, LastReplaced
<1>13. \A j \in 1..i : j = i \/ j \in 1..i - 1
  BY <1>1
<1>14. \A j \in 1..i : infos'[j].min = Ranges[j].min /\ infos'[j].max = Ranges[j].max
  BY <1>1, <1>11, <1>12, <1>13
<1>15. \A j \in 1..i - 1 : infos'[j].master = MasterPlace(j)
  BY <1>1, <1>12
<1> HIDE DEF i
<1>16. QED
  BY <1>1, <1>4, <1>10, <1>11, <1>12, <1>14, <1>15, PlainAgain

LEMMA PlainPort ==
  ASSUME ClusterTypes, FewLines, Ranges # <<>>, PlainInv, ParsePort
  PROVE  PlainInv'
<1> DEFINE i == Len(infos)
           last == infos[i]
<1>1. /\ infos \in Seq(InfoRecords) /\ i <= Len(Ranges) /\ i \in Nat
      /\ slaves \in Nat /\ parser = "runs"
      /\ \A j \in 1..i : infos[j].min = Ranges[j].min /\ infos[j].max = Ranges[j].max
      /\ \A j \in 1..i - 1 : infos[j].master = MasterPlace(j)
  BY LenProperties DEF PlainInv, ReadOK, ClusterTypes
<1>2. lines # <<>> /\ lines[1].blanks > 3
  BY DEF ParsePort, Running, This
<1>3. /\ infos # <<>> /\ i \in 1..Len(Ranges)
      /\ \E e \in 1..1 + slaves : /\ AtPort(last, i, e)
                                  /\ lines = <<PortLine>> \o NodesFrom(i, e + 1)
  <2>1. \A x : x > 3 => x # 0 /\ x # 3
    OBVIOUS
  <2>2. QED
    BY <1>2, <2>1, PlainCases, Zenon
<1>4. PICK e \in 1..1 + slaves : /\ AtPort(last, i, e)
                                 /\ lines = <<PortLine>> \o NodesFrom(i, e + 1)
  BY <1>3
<1>5. lines[1] = PortLine /\ Tail(lines) = NodesFrom(i, e + 1)
  BY <1>3, <1>4, FirstOfNode
<1>6. lines[1].kind = "integer" /\ lines[1].val = Port
  BY <1>5 DEF PortLine, Line
<1>7. last \in InfoRecords
  BY <1>1, <1>3
<1>8. ~NoPlaceForPort
  <2>1. last.slave = <<>> => last.master.port = 0
    BY <1>4 DEF AtPort
  <2>2. QED
    BY <1>3, <2>1 DEF NoPlaceForPort, LastInfo
<1> DEFINE new == IF last.master.port = 0
                  THEN [last EXCEPT !.master.port = Port]
                  ELSE [last EXCEPT !.slave[Len(last.slave)].port = Port]
<1>9. infos' = [infos EXCEPT ![i] = new]
  BY <1>6, <1>8 DEF ParsePort, SetLast, LastInfo, This
<1>10. lines' = NodesFrom(i, e + 1) /\ parser' = "runs" /\ UNCHANGED clusterVars
  BY <1>1, <1>5, <1>8 DEF ParsePort
<1>11. /\ new \in InfoRecords /\ new.min = last.min /\ new.max = last.max
       /\ new.master = MasterPlace(i)
  <2>1. /\ last.master \in Places /\ last.slave \in Seq(Places)
        /\ last.min \in Nat /\ last.max \in Nat
    BY <1>7 DEF InfoRecords
  <2>2. CASE e = 1
    <3>1. last.master = [ip |-> Address(Ranges[i].master), port |-> 0]
      BY <1>4, <2>2 DEF AtPort
    <3>2. new = [last EXCEPT !.master.port = Port]
      BY <3>1
    <3>3. new = [last EXCEPT !.master = MasterPlace(i)]
      BY <1>7, <2>1, <3>1, <3>2 DEF InfoRecords, Places, MasterPlace
    <3>4. MasterPlace(i) \in Places
      BY <2>1, <3>1 DEF MasterPlace, Places, Port
    <3> HIDE DEF new
    <3>5. QED
      BY <1>7, <3>3, <3>4 DEF InfoRecords
  <2>3. CASE e # 1
    <3>1. last.master = MasterPlace(i) /\ last.slave # <<>>
      BY <1>4, <2>3 DEF AtPort
    <3>2. last.master.port # 0
      BY <3>1 DEF MasterPlace, Port
    <3> DEFINE k == Len(last.slave)
               x == [last.slave[k] EXCEPT !.port = Port]
               s == [last.slave EXCEPT ![k] = x]
    <3>3. new = [last EXCEPT !.slave = s]
      BY <3>2
    <3>4. x \in Places
      <4>1. last.slave[k] \in Places
        <5>1. k \in 1..k
          BY <2>1, <3>1, TailFacts
        <5>2. QED
          BY <2>1, <5>1
      <4>2. QED
        BY <4>1 DEF Places, Port
    <3> HIDE DEF x
    <3>5. s \in Seq(Places)
      BY <2>1, <3>1, <3>4, LastReplaced
    <3> HIDE DEF new, s
    <3>6. QED
      BY <1>7, <3>1, <3>3, <3>5 DEF InfoRecords
  <2>4. QED
    BY <2>2, <2>3
<1> HIDE DEF new
<1>12. /\ infos' \in Seq(InfoRecords) /\ Len(infos') = i /\ infos' # <<>>
       /\ infos'[i] = new /\ \A j \in 1..i - 1 : infos'[j] = infos[j]
  BY <1>1, <1>3, <1>9, <1>11, LastReplaced
<1>13. \A j \in 1..i : j = i \/ j \in 1..i - 1
  BY <1>1
<1>14. \A j \in 1..i : infos'[j].min = Ranges[j].min /\ infos'[j].max = Ranges[j].max
  BY <1>1, <1>11, <1>12, <1>13
<1>15. \A j \in 1..i - 1 : infos'[j].master = MasterPlace(j)
  BY <1>1, <1>12
<1>16. e + 1 \in 1..2 + slaves /\ AtNode(new, i, e + 1)
  <2>1. e + 1 \in 1..2 + slaves /\ e + 1 > 1
    BY <1>1
  <2>2. QED
    BY <1>11, <2>1 DEF AtNode
<1> HIDE DEF i
<1>17. QED
  BY <1>1, <1>10, <1>12, <1>14, <1>15, <1>16, PlainAgain

\* Nothing is lost, and at the end everything has been read.
LEMMA PlainStep ==
  ASSUME ClusterTypes, FewLines, Ranges # <<>>, PlainInv, SlotNext
  PROVE  PlainInv'
<1>1. ~ParseNothing
  <2>1. \A x : x \in {1, 2} => x # 0 /\ x # 3 /\ x # 6
    OBVIOUS
  <2>2. QED
    BY <2>1, PlainCases DEF ParseNothing, Running, This
<1>2. QED
  BY <1>1, PlainBounds, PlainAddress, PlainPort DEF SlotNext

LEMMA PlainEnd ==
  ASSUME ClusterTypes, FewLines, Ranges # <<>>, PlainInv, lines = <<>>
  PROVE  /\ Len(infos) = Len(Ranges)
         /\ \A j \in 1..Len(infos) : infos[j].master = MasterPlace(j)
<1> DEFINE i == Len(infos)
<1>1. i \in Nat /\ i <= Len(Ranges) /\ Len(Ranges) \in Nat
  BY LenProperties, TextFacts DEF PlainInv, ReadOK
<1>2. lines = TextFrom(i + 1) /\ \A j \in 1..i : infos[j].master = MasterPlace(j)
  BY FirstOfNode, PlainForms
<1>3. i = Len(Ranges)
  <2>1. SUFFICES ASSUME i # Len(Ranges) PROVE FALSE
    OBVIOUS
  <2>2. i + 1 \in 1..Len(Ranges)
    BY <1>1, <2>1
  <2>3. QED
    BY <1>2, <2>2, FirstOfRange
<1>4. QED
  BY <1>2, <1>3

-----------------------------------------------------------------------------
\* What is left of a longer text never runs out: its first line is none that it
\* knows, or the lines of the addresses of the first range are taken for ports,
\* of which there is one too many.
ManyInv ==
  \/ parser # "runs"
  \/ infos = <<>> /\ lines = TextFrom(1)
  \/ /\ Len(Ranges) < Base /\ 3 + slaves >= Base
     /\ infos \in Seq(InfoRecords) /\ Len(infos) = 1 /\ infos[1].slave = <<>>
     /\ \/ infos[1].master.port = 0 /\ lines = NodesFrom(1, 1)
        \/ infos[1].master.port = 0 /\ lines = <<PortLine>> \o NodesFrom(1, 2)
        \/ infos[1].master.port = Port /\ lines = NodesFrom(1, 2)

LEMMA ManyBlanks ==
  ASSUME ClusterTypes, ~FewLines, Ranges # <<>>
  PROVE  /\ 1 \in 1..Len(Ranges) /\ Len(Ranges) \in Nat /\ slaves \in Nat
         /\ Len(Ranges) >= Base => Bounds(1)[1].blanks > 0
         /\ Len(Ranges) < Base =>
              /\ 3 + slaves >= Base /\ slaves > 1 /\ PortLine.blanks > 3
              /\ AddressLine(1, 1).blanks > 3 /\ AddressLine(1, 2).blanks > 3
<1> DEFINE n == Len(Ranges)
           k == 3 + slaves
<1>1. n \in Nat /\ slaves \in Nat /\ Base \in Nat /\ Base > 4 /\ k \in Nat
  BY TextFacts, SlotConstants DEF ClusterTypes
<1>2. 1 \in 1..n
  <2>1. n # 0
    BY RangesFacts, EmptySeq
  <2>2. QED
    BY <1>1, <2>1
<1>3. Width(1) = 1 /\ Width(3) = 1 /\ Width(4) = 1 /\ Width(n) \in Nat /\ Width(k) \in Nat
  <2>1. 1 \in Nat /\ 1 < Base /\ 3 \in Nat /\ 3 < Base /\ 4 \in Nat /\ 4 < Base
    BY <1>1
  <2>2. QED
    BY <1>1, <2>1, WidthFacts
<1>4. ASSUME n >= Base PROVE Bounds(1)[1].blanks > 0
  <2>1. Width(n) >= 2
    BY <1>1, <1>4, WidthFacts
  <2>2. Bounds(1)[1].blanks = Width(n) - Width(1)
    BY DEF Bounds, Line
  <2>3. \A x \in Nat : x >= 2 => x - 1 > 0
    OBVIOUS
  <2>4. QED
    BY <1>3, <2>1, <2>2, <2>3
<1>5. ASSUME n < Base
      PROVE  /\ k >= Base /\ slaves > 1 /\ PortLine.blanks > 3
             /\ AddressLine(1, 1).blanks > 3 /\ AddressLine(1, 2).blanks > 3
  <2>1. k >= Base /\ slaves > 1
    BY <1>1, <1>5 DEF FewLines
  <2>2. Width(n) = 1 /\ Width(k) >= 2
    BY <1>1, <1>5, <2>1, WidthFacts
  <2>3. Indent(n) = 3 /\ Indent(k) = Width(k) + 2
    <3>1. 1 + 2 = 3
      OBVIOUS
    <3>2. QED
      BY <2>2, <3>1 DEF Indent
  <2>4. /\ PortLine.blanks = Indent(n) + Indent(k)
        /\ AddressLine(1, 1).blanks = Indent(n) + Width(k) - Width(1 + 2)
        /\ AddressLine(1, 2).blanks = Indent(n) + Width(k) - Width(2 + 2)
    BY DEF PortLine, AddressLine, Line
  <2>5. 1 + 2 = 3 /\ 2 + 2 = 4
    OBVIOUS
  <2>6. \A x \in Nat : x >= 2 => 3 + (x + 2) > 3 /\ 3 + x - 1 > 3
    OBVIOUS
  <2> HIDE DEF n, k
  <2>7. PortLine.blanks = 3 + (Width(k) + 2)
    BY <2>3, <2>4
  <2>8. AddressLine(1, 1).blanks = 3 + Width(k) - 1 /\ AddressLine(1, 2).blanks = 3 + Width(k) - 1
    BY <1>3, <2>3, <2>4, <2>5
  <2>9. QED
    BY <1>3, <2>1, <2>2, <2>6, <2>7, <2>8
<1>6. n < Base \/ n >= Base
  BY <1>1
<1>7. QED
  BY <1>1, <1>2, <1>4, <1>5

LEMMA ManyStep ==
  ASSUME ClusterTypes, ~FewLines, Ranges # <<>>, ManyInv, SlotNext
  PROVE  ManyInv'
<1> DEFINE n == Len(Ranges)
<1>1. parser = "runs" /\ lines # <<>> /\ UNCHANGED clusterVars
  BY DEF SlotNext, ParseBounds, ParseAddress, ParsePort, ParseNothing, Running
<1>2. Ranges' = Ranges /\ slaves' = slaves /\ PortLine' = PortLine
  BY <1>1, RangesStay, ClusterStays
<1>3. ASSUME parser' # "runs" PROVE ManyInv'
  BY <1>3 DEF ManyInv
<1>4. ASSUME infos' \in Seq(InfoRecords), Len(infos') = 1, infos'[1].slave = <<>>,
             n < Base, 3 + slaves >= Base,
             \/ infos'[1].master.port = 0 /\ lines' = NodesFrom(1, 1)
             \/ infos'[1].master.port = 0 /\ lines' = <<PortLine>> \o NodesFrom(1, 2)
             \/ infos'[1].master.port = Port /\ lines' = NodesFrom(1, 2)
      PROVE  ManyInv'
  <2>1. NodesFrom(1, 1)' = NodesFrom(1, 1) /\ NodesFrom(1, 2)' = NodesFrom(1, 2)
    BY <1>1, ClusterStays
  <2>2. QED
    BY <1>2, <1>4, <2>1 DEF ManyInv
<1>5. /\ 1 \in 1..n /\ n \in Nat /\ slaves \in Nat /\ Base \in Nat
      /\ n < Base => 1 \in 1..1 + slaves /\ 2 \in 1..1 + slaves
  BY ManyBlanks, SlotConstants
<1>6. CASE infos = <<>> /\ lines = TextFrom(1)
  <2>1. /\ lines[1] = Bounds(1)[1] /\ lines[2] = Bounds(1)[2] /\ Len(lines) > 1
        /\ SubSeq(lines, 3, Len(lines)) = NodesFrom(1, 1)
    BY <1>5, <1>6, FirstOfRange
  <2>2. CASE ~ParseBounds
    <3>1. parser' # "runs"
      BY <1>6, <2>2 DEF SlotNext, ParseAddress, ParsePort, ParseNothing, NoPlaceForPort
    <3>2. QED
      BY <1>3, <3>1
  <2>3. CASE ParseBounds
    <3>1. lines[1].blanks = 0
      BY <2>3 DEF ParseBounds, This
    <3>2. n < Base /\ 3 + slaves >= Base
      <4>1. n < Base
        BY <1>5, <2>1, <3>1, ManyBlanks
      <4>2. QED
        BY <4>1, ManyBlanks
    <3> DEFINE r == [min |-> lines[1].val, max |-> lines[2].val,
                     master |-> NoPlace, slave |-> <<>>]
    <3>3. infos' = <<r>> /\ lines' = NodesFrom(1, 1)
      BY <1>6, <2>1, <2>3 DEF ParseBounds, This
    <3>4. r \in InfoRecords
      <4>1. lines[1].val = Ranges[1].min /\ lines[2].val = Ranges[1].max
        BY <2>1 DEF Bounds, Line
      <4>2. Ranges[1].min \in Nat /\ Ranges[1].max \in Nat
        BY <1>5, RangesFacts DEF RangeRecords
      <4>3. NoPlace \in Places /\ <<>> \in Seq(Places)
        BY DEF NoPlace, NoAddress, Places, Addresses
      <4>4. QED
        BY <4>1, <4>2, <4>3 DEF InfoRecords
    <3>5. r.slave = <<>> /\ r.master.port = 0
      BY DEF NoPlace
    <3> HIDE DEF r
    <3>6. infos' \in Seq(InfoRecords) /\ Len(infos') = 1 /\ infos'[1] = r
      BY <3>3, <3>4
    <3>7. QED
      BY <1>4, <3>2, <3>3, <3>5, <3>6
  <2>4. QED
    BY <2>2, <2>3
<1>7. ASSUME n < Base, 3 + slaves >= Base,
             infos \in Seq(InfoRecords), Len(infos) = 1, infos[1].slave = <<>>,
             lines[1].blanks > 3
      PROVE  /\ ParsePort
             /\ infos[1].master.port # 0 => parser' # "runs"
             /\ infos[1].master.port = 0 =>
                  LET port == IF lines[1].kind = "integer" THEN lines[1].val ELSE 0
                  IN port \in Nat =>
                       /\ infos' \in Seq(InfoRecords) /\ Len(infos') = 1
                       /\ infos'[1].slave = <<>> /\ infos'[1].master.port = port
  <2>1. ParsePort
    <3>1. \A x : x > 3 => x # 0 /\ x # 3 /\ x \notin {1, 2}
      OBVIOUS
    <3>2. QED
      BY <1>7, <3>1 DEF SlotNext, ParseBounds, ParseAddress, ParseNothing, This
  <2>2. infos # <<>> /\ infos[1] \in InfoRecords
    <3>1. infos # <<>>
      <4>1. Len(<<>>) # 1
        OBVIOUS
      <4>2. QED
        BY <1>7, <4>1, Zenon
    <3>2. 1 \in 1..Len(infos)
      BY <1>7
    <3>3. QED
      BY <1>7, <3>1, <3>2
  <2>3. NoPlaceForPort <=> infos[1].master.port # 0
    BY <1>7, <2>2 DEF NoPlaceForPort, LastInfo
  <2>4. infos[1].master.port # 0 => parser' # "runs"
    BY <2>1, <2>3 DEF ParsePort
  <2>5. ASSUME infos[1].master.port = 0,
               NEW port \in Nat, port = IF lines[1].kind = "integer" THEN lines[1].val ELSE 0
        PROVE  /\ infos' \in Seq(InfoRecords) /\ Len(infos') = 1
               /\ infos'[1].slave = <<>> /\ infos'[1].master.port = port
    <3> DEFINE new == [infos[1] EXCEPT !.master.port = port]
    <3>1. infos' = [infos EXCEPT ![Len(infos)] = new]
      BY <1>7, <2>1, <2>3, <2>5 DEF ParsePort, SetLast, LastInfo, This
    <3>2. new \in InfoRecords /\ new.slave = <<>> /\ new.master.port = port
      BY <1>7, <2>2 DEF InfoRecords, Places
    <3> HIDE DEF new
    <3>3. infos' \in Seq(InfoRecords) /\ Len(infos') = 1 /\ infos'[1] = new
      BY <1>7, <2>2, <3>1, <3>2, LastReplaced
    <3>4. QED
      BY <3>2, <3>3
  <2>6. QED
    BY <2>1, <2>4, <2>5
<1>8. CASE /\ n < Base /\ 3 + slaves >= Base
           /\ infos \in Seq(InfoRecords) /\ Len(infos) = 1 /\ infos[1].slave = <<>>
           /\ infos[1].master.port = 0 /\ lines = NodesFrom(1, 1)
  <2>1. lines = <<AddressLine(1, 1), PortLine>> \o NodesFrom(1, 2)
    <3>1. 1 + 1 = 2
      OBVIOUS
    <3>2. QED
      BY <1>5, <1>8, <3>1, PartsOfText
  <2>2. lines[1] = AddressLine(1, 1) /\ Tail(lines) = <<PortLine>> \o NodesFrom(1, 2)
    <3>1. 1 + 1 = 2
      OBVIOUS
    <3>2. QED
      BY <1>5, <1>8, <2>1, <3>1, FirstOfNode
  <2>3. lines[1].blanks > 3 /\ lines[1].kind # "integer"
    BY <1>5, <1>8, <2>2, ManyBlanks DEF AddressLine, Line
  <2>4. /\ infos' \in Seq(InfoRecords) /\ Len(infos') = 1
        /\ infos'[1].slave = <<>> /\ infos'[1].master.port = 0 /\ ParsePort
    BY <1>7, <1>8, <2>3
  <2>5. lines' = <<PortLine>> \o NodesFrom(1, 2)
    BY <2>2, <2>4 DEF ParsePort
  <2>6. QED
    BY <1>4, <1>8, <2>4, <2>5
<1>9. CASE /\ n < Base /\ 3 + slaves >= Base
           /\ infos \in Seq(InfoRecords) /\ Len(infos) = 1 /\ infos[1].slave = <<>>
           /\ infos[1].master.port = 0 /\ lines = <<PortLine>> \o NodesFrom(1, 2)
  <2>1. lines[1] = PortLine /\ Tail(lines) = NodesFrom(1, 2)
    <3>1. \A e \in 1..1 + slaves, f \in Nat : f = e + 1 =>
            LET q == <<PortLine>> \o NodesFrom(1, f)
            IN q[1] = PortLine /\ Tail(q) = NodesFrom(1, f)
      BY <1>5, FirstOfNode
    <3>2. 2 = 1 + 1 /\ 1 \in 1..1 + slaves
      BY <1>5, <1>9
    <3>3. QED
      BY <1>9, <3>1, <3>2
  <2>2. lines[1].blanks > 3 /\ lines[1].kind = "integer" /\ lines[1].val = Port
    <3>1. lines[1].blanks > 3
      BY <1>9, <2>1, ManyBlanks
    <3>2. QED
      BY <2>1, <3>1 DEF PortLine, Line
  <2>3. Port \in Nat
    BY DEF Port
  <2>4. /\ infos' \in Seq(InfoRecords) /\ Len(infos') = 1
        /\ infos'[1].slave = <<>> /\ infos'[1].master.port = Port /\ ParsePort
    BY <1>7, <1>9, <2>2, <2>3
  <2>5. lines' = NodesFrom(1, 2)
    BY <2>1, <2>4 DEF ParsePort
  <2>6. QED
    BY <1>4, <1>9, <2>4, <2>5
<1>10. CASE /\ n < Base /\ 3 + slaves >= Base
            /\ infos \in Seq(InfoRecords) /\ Len(infos) = 1 /\ infos[1].slave = <<>>
            /\ infos[1].master.port = Port /\ lines = NodesFrom(1, 2)
  <2>1. lines[1] = AddressLine(1, 2)
    BY <1>5, <1>10, PartsOfText, FirstOfNode
  <2>2. lines[1].blanks > 3
    BY <1>10, <2>1, ManyBlanks
  <2>3. infos[1].master.port # 0
    BY <1>10 DEF Port
  <2>4. parser' # "runs"
    BY <1>7, <1>10, <2>2, <2>3
  <2>5. QED
    BY <1>3, <2>4
<1>11. QED
  BY <1>1, <1>6, <1>8, <1>9, <1>10 DEF ManyInv

-----------------------------------------------------------------------------
\* The whole of it: a reply without ranges, with few lines, or with more.
NothingInv ==
  parser = "runs" /\ (lines = <<Line(0, "empty", 0)>> \/ lines = <<>>)

SlotInv ==
  /\ ClusterTypes
  /\ Ranges = <<>> => NothingInv
  /\ Ranges # <<>> /\ FewLines => PlainInv
  /\ Ranges # <<>> /\ ~FewLines => ManyInv

LEMMA SlotInvStarts ==
  ASSUME SlotInit
  PROVE  SlotInv
<1>1. ClusterTypes
  BY SlotConstants DEF SlotInit, ClusterTypes
<1>2. lines = Text /\ infos = <<>> /\ parser = "runs"
  BY DEF SlotInit
<1>3. ASSUME Ranges = <<>> PROVE NothingInv
  <2>1. Len(Ranges) = 0
    BY <1>3
  <2>2. Text = <<Line(0, "empty", 0)>>
    BY <2>1 DEF Text
  <2>3. QED
    BY <1>2, <2>2 DEF NothingInv
<1>4. ASSUME Ranges # <<>> PROVE lines = TextFrom(1)
  BY <1>1, <1>2, <1>4, PartsOfText
<1>5. ASSUME Ranges # <<>> PROVE PlainInv
  <2>1. Len(Ranges) \in Nat
    BY <1>1, TextFacts
  <2>2. /\ infos \in Seq(InfoRecords) /\ Len(infos) = 0
        /\ 1..Len(infos) = {} /\ 1..Len(infos) - 1 = {}
    BY <1>2
  <2>3. ReadOK
    BY <2>1, <2>2 DEF ReadOK
  <2>4. QED
    BY <1>2, <1>4, <1>5, <2>3 DEF PlainInv
<1>6. QED
  BY <1>1, <1>2, <1>3, <1>4, <1>5 DEF SlotInv, ManyInv

LEMMA SlotInvStays ==
  ASSUME SlotInv, [SlotNext]_slotVars
  PROVE  SlotInv'
<1>1. UNCHANGED clusterVars
  BY DEF SlotNext, ParseBounds, ParseAddress, ParsePort, ParseNothing, slotVars
<1>2. ClusterTypes /\ ClusterTypes'
  <2>1. ClusterTypes
    BY DEF SlotInv
  <2>2. QED
    BY <1>1, <2>1 DEF ClusterTypes, clusterVars
<1>3. Ranges' = Ranges /\ slaves' = slaves
  BY <1>1, RangesStay DEF clusterVars
<1>4. FewLines' <=> FewLines
  BY <1>3 DEF FewLines
<1>5. CASE UNCHANGED slotVars
  <2>1. lines' = lines /\ infos' = infos /\ parser' = parser
    BY <1>5 DEF slotVars
  <2>2. NothingInv => NothingInv'
    BY <2>1 DEF NothingInv
  <2>3. /\ PortLine' = PortLine
        /\ \A i : TextFrom(i)' = TextFrom(i) /\ MasterPlace(i)' = MasterPlace(i)
        /\ \A i, e : NodesFrom(i, e)' = NodesFrom(i, e)
        /\ \A info, i, e : /\ AtNode(info, i, e)' <=> AtNode(info, i, e)
                           /\ AtPort(info, i, e)' <=> AtPort(info, i, e)
    BY <1>1, ClusterStays
  <2>4. PlainInv => PlainInv'
    BY <1>3, <2>1, <2>3 DEF PlainInv, ReadOK
  <2>5. ManyInv => ManyInv'
    BY <1>3, <2>1, <2>3 DEF ManyInv
  <2>6. QED
    BY <1>2, <1>3, <1>4, <2>2, <2>4, <2>5 DEF SlotInv
<1>6. CASE SlotNext
  <2>1. ASSUME Ranges = <<>> PROVE NothingInv'
    <3>1. NothingInv /\ lines # <<>>
      BY <1>6, <2>1 DEF SlotInv, SlotNext, ParseBounds, ParseAddress, ParsePort,
                        ParseNothing, Running
    <3>2. lines = <<Line(0, "empty", 0)>>
      BY <3>1 DEF NothingInv
    <3>3. lines[1].blanks = 0 /\ Len(lines) = 1
      BY <3>2 DEF Line
    <3>4. ParseBounds
      BY <1>6, <3>3 DEF SlotNext, ParseAddress, ParsePort, ParseNothing, This
    <3>5. lines' = <<>>
      <4>1. SubSeq(lines, 3, 1) = <<>>
        BY <3>2
      <4>2. QED
        BY <3>3, <3>4, <4>1 DEF ParseBounds
    <3>6. QED
      BY <3>1, <3>4, <3>5 DEF NothingInv, ParseBounds
  <2>2. ASSUME Ranges # <<>>, FewLines PROVE PlainInv'
    BY <1>2, <1>6, <2>2, PlainStep DEF SlotInv
  <2>3. ASSUME Ranges # <<>>, ~FewLines PROVE ManyInv'
    BY <1>2, <1>6, <2>3, ManyStep DEF SlotInv
  <2>4. QED
    BY <1>2, <1>3, <1>4, <2>1, <2>2, <2>3 DEF SlotInv
<1>7. QED
  BY <1>5, <1>6

\* Text of more lines is not read to its end, and any other is.
LEMMA ManyNeverEnd ==
  ASSUME ClusterTypes, ~FewLines, Ranges # <<>>, ManyInv, parser = "runs"
  PROVE  lines # <<>>
<1>1. CASE infos = <<>> /\ lines = TextFrom(1)
  BY <1>1, ManyBlanks, FirstOfRange
<1>2. CASE Len(Ranges) < Base /\ lines \in {NodesFrom(1, 1), NodesFrom(1, 2),
                                           <<PortLine>> \o NodesFrom(1, 2)}
  <2>1. 1 \in 1..Len(Ranges) /\ 1 \in 1..1 + slaves /\ 2 \in 1..1 + slaves
    BY <1>2, ManyBlanks
  <2>2. 1 + 1 = 2
    OBVIOUS
  <2>3. NodesFrom(1, 1) # <<>> /\ NodesFrom(1, 2) # <<>>
    BY <2>1, PartsOfText, FirstOfNode
  <2>4. <<PortLine>> \o NodesFrom(1, 2) # <<>>
    BY <2>1, <2>2, FirstOfNode
  <2>5. QED
    BY <1>2, <2>3, <2>4
<1>3. QED
  BY <1>1, <1>2 DEF ManyInv

-----------------------------------------------------------------------------
\* The slot of a key without a tag.
LEMMA FindFacts ==
  ASSUME NEW key \in Seq(0..255), NEW c, NEW i \in 1..Len(key) + 1
  PROVE  /\ Find(key, c, i) \in i..Len(key) + 1
         /\ Find(key, c, i) = Len(key) + 1 \/ key[Find(key, c, i)] = c
         /\ \A k \in i..Find(key, c, i) - 1 : key[k] # c
<1> DEFINE n == Len(key)
           Ends == {j \in i..n + 1 : j = n + 1 \/ key[j] = c}
           P(j) == /\ j = n + 1 \/ key[j] = c
                   /\ \A k \in i..j - 1 : key[k] # c
<1>1. n \in Nat /\ i \in Nat /\ i <= n + 1
  BY LenProperties
<1>2. Ends \subseteq Nat /\ n + 1 \in Ends
  BY <1>1
<1>3. PICK j \in Ends : \A x \in Ends : j <= x
  <2> HIDE DEF Ends
  <2>1. QED
    BY <1>2, Least
<1>4. j \in i..n + 1 /\ (j = n + 1 \/ key[j] = c)
  BY <1>3
<1>5. ASSUME NEW k \in i..j - 1 PROVE key[k] # c
  <2>1. k \in i..n + 1 /\ ~(j <= k)
    BY <1>1, <1>4
  <2>2. k \notin Ends
    BY <1>3, <2>1
  <2>3. QED
    BY <2>1, <2>2
<1>6. j \in i..n + 1 /\ P(j)
  BY <1>4, <1>5
<1>7. Find(key, c, i) = CHOOSE x \in i..n + 1 : P(x)
  BY DEF Find
<1>8. Find(key, c, i) \in i..n + 1 /\ P(Find(key, c, i))
  <2> HIDE DEF P
  <2>1. QED
    BY <1>6, <1>7
<1>9. QED
  BY <1>8

LEMMA PlainKeySlot ==
  ASSUME NEW key \in Keys, ~Tagged(key)
  PROVE  /\ KeyHashSlot(key) = Slot(key) /\ ClientSlot(key) = Slot(key)
         /\ Slot(key) \in 0..NSlots - 1
<1> DEFINE n == Len(key)
           s == Find(key, OpenBrace, 1)
           e == Find(key, CloseBrace, s + 1)
<1>1. key \in Seq(0..255) /\ n \in Nat /\ 1 \in 1..n + 1
  BY SlotConstants, LenProperties
<1>2. /\ s \in 1..n + 1 /\ (s = n + 1 \/ key[s] = OpenBrace)
      /\ \A k \in 1..s - 1 : key[k] # OpenBrace
  BY <1>1, FindFacts
<1> HIDE DEF s
<1>3. s > n \/ e > n \/ e = s + 1
  <2>1. SUFFICES ASSUME s <= n, e <= n, e # s + 1 PROVE FALSE
    <3>1. s \in Nat
      BY <1>1, <1>2
    <3>2. s <= n => e \in Nat
      <4>1. s <= n => s + 1 \in 1..n + 1
        BY <1>1, <3>1
      <4>2. s <= n => e \in s + 1..n + 1
        BY <1>1, <4>1, FindFacts
      <4>3. QED
        BY <1>1, <3>1, <4>2
    <3> HIDE DEF e
    <3>3. QED
      BY <1>1, <3>1, <3>2
  <2>2. s + 1 \in 1..n + 1 /\ s \in Nat /\ s # n + 1
    BY <1>1, <1>2, <2>1
  <2>3. /\ e \in s + 1..n + 1 /\ (e = n + 1 \/ key[e] = CloseBrace)
        /\ \A k \in s + 1..e - 1 : key[k] # CloseBrace
    BY <1>1, <2>2, FindFacts
  <2> HIDE DEF e
  <2>4. s \in 1..n /\ e \in 1..n /\ e # n + 1 /\ s + 1 < e
    <3>1. e \in Int /\ s + 1 <= e
      BY <1>1, <2>2, <2>3
    <3>2. s >= 1
      BY <1>1, <1>2
    <3>3. QED
      BY <1>1, <2>1, <2>2, <3>1, <3>2
  <2>5. key[s] = OpenBrace /\ key[e] = CloseBrace
    BY <1>2, <2>2, <2>3, <2>4
  <2>6. ASSUME NEW k \in 1..e - 1
        PROVE  (key[k] = OpenBrace => k >= s) /\ (key[k] = CloseBrace => k < s)
    <3>1. CASE k \in 1..s - 1
      BY <1>2, <2>2, <3>1
    <3>2. CASE k = s
      BY <2>2, <2>5, <3>2 DEF OpenBrace, CloseBrace
    <3>3. CASE k \in s + 1..e - 1
      BY <2>2, <2>3, <3>3
    <3>4. QED
      BY <2>2, <2>4, <3>1, <3>2, <3>3
  <2>7. Tagged(key)
    BY <2>4, <2>5, <2>6 DEF Tagged
  <2>8. QED
    BY <2>7
<1>4. KeyHashSlot(key) = Slot(key)
  <2> HIDE DEF e
  <2>1. KeyHashSlot(key) = IF s > n \/ e > n \/ e = s + 1 THEN Slot(key)
                           ELSE Slot(SubSeq(key, s + 1, e - 1))
    BY DEF KeyHashSlot, s, e
  <2>2. QED
    BY <1>3, <2>1
<1>5. Slot(key) \in 0..NSlots - 1
  <2>1. Crc(key) \in Nat /\ NSlots \in Nat \ {0}
    BY SlotConstants
  <2>2. \A a \in Nat, b \in Nat \ {0} : a % b \in 0..b - 1
    OBVIOUS
  <2>3. QED
    BY <2>1, <2>2 DEF Slot
<1>6. QED
  BY <1>4, <1>5 DEF ClientSlot

\* When all ranges have been read, a slot is routed to its owner.
LEMMA SlotsAreRouted ==
  ASSUME ClusterTypes, ReadOK, Len(infos) = Len(Ranges),
         \A j \in 1..Len(infos) : infos[j].master = MasterPlace(j),
         NEW x \in 0..NSlots - 1
  PROVE  IF owner[x] = NoOne THEN Fitting(x) = {}
         ELSE /\ Fitting(x) # {}
              /\ Route(x) = [ip |-> Address(owner[x]), port |-> Port]
<1>1. /\ infos \in Seq(InfoRecords) /\ DOMAIN infos = 1..Len(Ranges) /\ NSlots \in Nat \ {0}
      /\ \A j \in 1..Len(Ranges) : infos[j].min = Ranges[j].min /\ infos[j].max = Ranges[j].max
  BY LenProperties, SlotConstants DEF ReadOK
<1>2. ASSUME NEW i \in Fitting(x) PROVE i \in 1..Len(Ranges) /\ owner[x] = Ranges[i].master
  <2>1. i \in 1..Len(Ranges) /\ infos[i].min <= x /\ x <= infos[i].max
    BY <1>1 DEF Fitting
  <2>2. Ranges[i] \in RangeRecords /\ RangeOK(Ranges[i])
    BY <2>1, RangesFacts
  <2>3. Ranges[i].min \in Nat /\ Ranges[i].max \in Nat
    BY <2>2 DEF RangeRecords
  <2>4. x \in Ranges[i].min..Ranges[i].max
    BY <1>1, <2>1, <2>3
  <2>5. QED
    BY <2>1, <2>2, <2>4 DEF RangeOK
<1>3. CASE owner[x] = NoOne
  <2>1. \A i \in 1..Len(Ranges) : Ranges[i].master # NoOne
    BY RangesFacts, SlotConstants DEF RangeRecords
  <2>2. Fitting(x) = {}
    BY <1>2, <1>3, <2>1
  <2>3. QED
    BY <1>3, <2>2
<1>4. CASE owner[x] # NoOne
  <2>1. PICK i \in 1..Len(Ranges) : Covers(Ranges[i], x)
    BY <1>4, RangesFacts
  <2>2. i \in Fitting(x)
    BY <1>1, <2>1 DEF Fitting, Covers
  <2> DEFINE F == Fitting(x)
             first == CHOOSE k \in F : \A j \in F : k <= j
  <2>3. F \subseteq Nat /\ F # {}
    <3>1. \A j \in 1..Len(Ranges) : j \in Nat
      OBVIOUS
    <3>2. QED
      BY <1>2, <2>2, <3>1
  <2> HIDE DEF F
  <2>4. \E k \in F : \A j \in F : k <= j
    BY <2>3, Least
  <2>5. first \in F
    BY <2>4
  <2>6. Route(x) = infos[first].master
    BY DEF Route, F
  <2> HIDE DEF first
  <2>7. first \in 1..Len(Ranges) /\ owner[x] = Ranges[first].master
    BY <1>2, <2>5 DEF F
  <2>8. infos[first].master = MasterPlace(first)
    BY <2>7
  <2>9. QED
    BY <1>4, <2>2, <2>6, <2>7, <2>8 DEF MasterPlace
<1>5. QED
  BY <1>3, <1>4

LEMMA SlotInvShows ==
  ASSUME SlotInv
  PROVE  KeysFindTheirMaster
<1>1. SUFFICES ASSUME Parsed, infos # <<>>, Ranges # <<>>, NEW t \in SlotsOfKeys
               PROVE  LET m == owner[t[2]] IN
                      IF m = NoOne THEN Fitting(t[1]) = {}
                      ELSE /\ Fitting(t[1]) # {}
                           /\ digits[m] = 3 =>
                                Route(t[1]) = [ip |-> [of |-> m, whole |-> TRUE],
                                               port |-> Port]
  BY DEF KeysFindTheirMaster
<1>2. ClusterTypes /\ parser = "runs" /\ lines = <<>>
  BY <1>1 DEF Parsed, SlotInv
<1>3. FewLines /\ PlainInv
  BY <1>1, <1>2, ManyNeverEnd DEF SlotInv
<1>4. /\ Len(infos) = Len(Ranges) /\ ReadOK
      /\ \A j \in 1..Len(infos) : infos[j].master = MasterPlace(j)
  BY <1>1, <1>2, <1>3, PlainEnd DEF PlainInv
<1>5. PICK key \in Keys : ~Tagged(key) /\ t = <<ClientSlot(key), KeyHashSlot(key)>>
  BY <1>1 DEF SlotsOfKeys, PlainKeys
<1> DEFINE x == Slot(key)
<1>6. x \in 0..NSlots - 1 /\ t[1] = x /\ t[2] = x
  BY <1>5, PlainKeySlot
<1> HIDE DEF x
<1>7. IF owner[x] = NoOne THEN Fitting(x) = {}
      ELSE Fitting(x) # {} /\ Route(x) = [ip |-> Address(owner[x]), port |-> Port]
  BY <1>2, <1>4, <1>6, SlotsAreRouted
<1>8. digits[owner[x]] = 3 => Address(owner[x]) = [of |-> owner[x], whole |-> TRUE]
  BY DEF Address
<1>9. QED
  BY <1>6, <1>7, <1>8

(***************************************************************************)
(* For any cluster whose owners are its masters, and any keys, the client  *)
(* sends a key without a tag to the master of its slot (getRightCliByKey), *)
(* and finds no range for a slot without an owner.                         *)
(***************************************************************************)
THEOREM KeysAreFound == SlotSpec => []KeysFindTheirMaster
<1>1. SlotInit => SlotInv
  BY SlotInvStarts
<1>2. SlotInv /\ [SlotNext]_slotVars => SlotInv'
  BY SlotInvStays
<1>3. SlotInv => KeysFindTheirMaster
  BY SlotInvShows
<1>4. QED
  BY <1>1, <1>2, <1>3, PTL DEF SlotSpec

(***************************************************************************)
(* For any cluster parseSlots reads the replies with few ranges and few    *)
(* replicas, and no other: with those it neither loops nor writes out of   *)
(* bounds, with more it never comes to the end of the reply.               *)
(***************************************************************************)
THEOREM FewLinesAreRead == SlotSpec => []ReadsOnlyFewLines
<1>1. SlotInit => SlotInv
  BY SlotInvStarts
<1>2. SlotInv /\ [SlotNext]_slotVars => SlotInv'
  BY SlotInvStays
<1>3. SlotInv => ReadsOnlyFewLines
  <2>1. SUFFICES ASSUME SlotInv PROVE ReadsOnlyFewLines
    OBVIOUS
  <2>2. ClusterTypes /\ Len(Ranges) \in Nat /\ slaves \in Nat /\ Base \in Nat
    BY <2>1, TextFacts, SlotConstants DEF SlotInv, ClusterTypes
  <2>3. FewLines <=> ~ManyLines
    BY <2>2 DEF FewLines, ManyLines
  <2>4. ~ManyLines => parser = "runs"
    BY <2>1, <2>3 DEF SlotInv, NothingInv, PlainInv
  <2>5. ManyLines /\ Ranges # <<>> => ~Parsed
    BY <2>1, <2>2, <2>3, ManyNeverEnd DEF SlotInv, Parsed
  <2>6. QED
    BY <2>4, <2>5 DEF ReadsOnlyFewLines
<1>4. QED
  BY <1>1, <1>2, <1>3, PTL DEF SlotSpec
=============================================================================

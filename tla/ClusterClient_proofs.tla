------------------------ MODULE ClusterClient_proofs ------------------------
(***************************************************************************)
(* The redis cluster client: a reply is for the command at the front, and  *)
(* a command is executed once and in its turn, whatever is redirected and  *)
(* whatever connection fails.                                              *)
(***************************************************************************)
EXTENDS ClusterClient, QueueFacts, FiniteSetTheorems, TLAPS

\* The commands that are typed.
UserCmds == [kind : {"user"}, id : 1..MaxCommands, slot : Slots]

\* A queue in the order of typing.
Ascending(q) == \A i, j \in 1..Len(q) : i < j => q[i].id < q[j].id

\* The context of a client and what is on its way.
Context(cl, from, to, ex) ==
  /\ cl \in ClientStates /\ from \in Seq(Replies) /\ to \in Seq(Requests)
  /\ Aligned(cl, from, to \o cl.obuf, ex)
  /\ cl.conn \notin {"up", "closing"} => from = <<>> /\ to = <<>>
  /\ ~cl.made => cl = NoClient
  /\ cl.conn \in {"none", "freed"} => cl.obuf = <<>> /\ cl.callbacks = <<>>
  /\ cl.conn = "none" => ~cl.doing
  /\ cl.newAddr # NoNode <=> cl.conn = "closing"
  /\ cl.conn = "closing" => \A i \in 1..Len(cl.callbacks) : cl.callbacks[i] # "msg"

\* What the queue of a client may hold: that of the bootstrap node CLUSTER
\* SLOTS, once, and that of a master the commands for the slots m_slots gives
\* it.  The bootstrap client is redirected nowhere.
Holds(c, cl, sl) ==
  IF c = Boot
  THEN /\ cl.cache \in {<<>>, <<ClusterSlots>>} /\ cl.conn # "closing"
       /\ cl.conn = "connecting" => cl.cache = <<>>
  ELSE /\ cl.cache \in Seq(UserCmds)
       /\ \A i \in 1..Len(cl.cache) : sl[cl.cache[i].slot] = c

\* The answer to the command at the front is there, and not yet read.
Answered(cl, from) ==
  \E i \in 1..Len(from) : cl.callbacks[i] = "msg" /\ from[i].kind = "ok"

\* The queue of a client is in order, and what was executed for its slots was
\* typed earlier, but for the front command itself while its answer is on the
\* way: this is what a redirection, which puts the command back, preserves.
Behind(c, cl, from, sl, ex) ==
  c # Boot =>
    /\ Ascending(cl.cache)
    /\ \A k \in 1..Len(ex), i \in 1..Len(cl.cache) :
         sl[ex[k].slot] = c =>
           \/ ex[k].id < cl.cache[i].id
           \/ i = 1 /\ Answered(cl, from) /\ ex[k] = cl.cache[1]

\* What holds of one client.
ClientInv(c, cl, from, to, sl, ex) ==
  Context(cl, from, to, ex) /\ Holds(c, cl, sl) /\ Behind(c, cl, from, sl, ex)

\* The commands a client was given, waiting or executed.
Handed ==
  {m \in UserCmds : \/ m \in ToSet(executed)
                    \/ \E c \in Nodes : m \in ToSet(client[c].cache)}
\* The commands that are not lost.
Known == {m \in UserCmds : m \in ToSet(command) \/ m \in Handed}

\* Ids are given in turn, and m_command holds the last ones.
Numbered ==
  /\ command \in Seq(UserCmds) /\ executed \in Seq(UserCmds)
  /\ Len(command) <= typed
  /\ \A i \in 1..Len(command) : command[i].id = typed - Len(command) + i
  /\ \A m \in Handed : m.id <= typed - Len(command)

\* A command has an id of its own.
OneEach == \A x, y \in Known : x.id = y.id => x = y

\* What was executed for one client was executed in the order of typing; this
\* says more than SlotOrder, since a client has several slots.
InTurn ==
  /\ \A k \in 1..Len(executed) : slots[executed[k].slot] \in Nodes
  /\ \A i, j \in 1..Len(executed) :
       i < j /\ slots[executed[i].slot] = slots[executed[j].slot]
         => executed[i].id < executed[j].id

\* Once m_slots is loaded the bootstrap client asks for it no more: the map
\* that Holds and Behind speak of does not change under them.
LoadedOnce ==
  (\E s \in Slots : slots[s] # NoNode) =>
    client[Boot].cache = <<>> /\ client[Boot].conn # "connecting"

\* Until a connection fails no command is lost.
NoneLost == errors = 0 => \A n \in 1..typed : \E m \in Known : m.id = n

\* The types of the variables.
Types ==
  /\ process \in {"running", "crashed", "aborted"}
  /\ slots \in [Slots -> Nodes \cup {NoNode}]
  /\ client \in [Clients -> ClientStates]
  /\ toNode \in [Clients -> Seq(Requests)]
  /\ fromNode \in [Clients -> Seq(Replies)]
  /\ owner \in [Slots -> Nodes]
  /\ typed \in 0..MaxCommands /\ moves \in 0..MaxMoves /\ errors \in 0..MaxErrors

\* The inductive invariant.
IInv ==
  /\ Types
  /\ \A c \in Clients :
       ClientInv(c, client[c], fromNode[c], toNode[c], slots, executed)
  /\ Numbered /\ OneEach /\ InTurn /\ LoadedOnce /\ NoneLost

-----------------------------------------------------------------------------
(***************************************************************************)
(* Callbacks, answers and requests.                                        *)
(***************************************************************************)

\* What the callbacks stand for is kept when the client goes on to have the
\* same command under way.
Keeps(cl, nx) ==
  cl.doing /\ cl.cache # <<>>
    => nx.doing /\ nx.cache # <<>> /\ Head(nx.cache) = Head(cl.cache)

\* No callback goes on to getMsgback.
NoMsg(callbacks) == \A i \in 1..Len(callbacks) : callbacks[i] # "msg"

\* A callback is put with the request it is for.
LEMMA RequestAligned ==
  ASSUME NEW cl, NEW nx, NEW from \in Seq(Replies), NEW sent \in Seq(Requests),
         NEW ex, NEW b \in {"msg", "lua"}, NEW m \in Requests,
         cl.callbacks \in Seq({"msg", "lua"}),
         Aligned(cl, from, sent, ex), Keeps(cl, nx),
         nx.callbacks = Append(cl.callbacks, b),
         b = "lua" => m = LoadLua,
         b = "msg" => /\ NoMsg(cl.callbacks)
                      /\ nx.doing /\ nx.cache # <<>> /\ m = Head(nx.cache)
  PROVE  Aligned(nx, from, Append(sent, m), ex)
<1> DEFINE n == Len(cl.callbacks)
           k == Len(from)
<1>1. /\ n \in Nat /\ k \in Nat /\ Len(sent) \in Nat /\ n = k + Len(sent)
      /\ Len(nx.callbacks) = n + 1 /\ Len(Append(sent, m)) = Len(sent) + 1
      /\ \A i \in 1..n : nx.callbacks[i] = cl.callbacks[i]
      /\ nx.callbacks[n + 1] = b
      /\ \A i \in 1..Len(sent) : Append(sent, m)[i] = sent[i]
      /\ Append(sent, m)[Len(sent) + 1] = m
  BY AppendFacts, LenProperties, SMTT(20) DEF Aligned
<1> HIDE DEF n, k
<1>2. ASSUME NEW i \in 1..n PROVE CallbackFits(nx, from, Append(sent, m), ex, i)
  <2>1. CallbackFits(cl, from, sent, ex, i) /\ nx.callbacks[i] = cl.callbacks[i]
    BY <1>1 DEF Aligned, n
  <2>2. i > k => i - k \in 1..Len(sent) /\ Append(sent, m)[i - k] = sent[i - k]
    BY <1>1
  <2>3. CASE cl.callbacks[i] = "lua"
    BY <1>1, <2>1, <2>2, <2>3 DEF CallbackFits, k
  <2>4. CASE cl.callbacks[i] # "lua"
    BY <1>1, <2>1, <2>2, <2>4 DEF CallbackFits, Keeps, k
  <2>5. QED
    BY <2>3, <2>4
<1>3. CallbackFits(nx, from, Append(sent, m), ex, n + 1)
  <2>1. ~(n + 1 <= k) /\ Append(sent, m)[(n + 1) - k] = m
    BY <1>1
  <2>2. CASE b = "lua"
    BY <1>1, <2>1, <2>2 DEF CallbackFits, k
  <2>3. CASE b = "msg"
    BY <1>1, <2>1, <2>3 DEF CallbackFits, k
  <2>4. QED
    BY <2>2, <2>3
<1>4. ASSUME NEW i \in 1..n + 1, NEW j \in 1..n + 1,
             nx.callbacks[i] = "msg", nx.callbacks[j] = "msg"
      PROVE  i = j
  <2>1. CASE i \in 1..n /\ j \in 1..n
    BY <1>1, <1>4, <2>1 DEF Aligned, n
  <2>2. CASE i = n + 1 /\ j \in 1..n
    BY <1>1, <1>4, <2>2 DEF NoMsg, n
  <2>3. CASE j = n + 1 /\ i \in 1..n
    BY <1>1, <1>4, <2>3 DEF NoMsg, n
  <2>4. QED
    BY <1>1, <2>1, <2>2, <2>3
<1>5. QED
  <2>1. \A i \in 1..n + 1 : i \in 1..n \/ i = n + 1
    BY <1>1
  <2>2. Len(nx.callbacks) = Len(from) + Len(Append(sent, m))
    BY <1>1 DEF k
  <2>3. \A i \in 1..n + 1 : CallbackFits(nx, from, Append(sent, m), ex, i)
    BY <1>2, <1>3, <2>1
  <2>4. QED
    BY <1>1, <1>4, <2>2, <2>3 DEF Aligned

\* A node answers the request that is the first.
LEMMA AnswerAligned ==
  ASSUME NEW cl, NEW from \in Seq(Replies), NEW sent \in Seq(Requests),
         NEW ex, NEW after, NEW r \in Replies,
         cl.callbacks \in Seq({"msg", "lua"}), cl.cache \in Seq(Cmds),
         Aligned(cl, from, sent, ex), sent # <<>>, ToSet(ex) \subseteq ToSet(after),
         Head(sent) = LoadLua => r.kind = "ok",
         Head(sent) # LoadLua => ReplyFits(r, Head(sent), after)
  PROVE  /\ Aligned(cl, Append(from, r), Tail(sent), after)
         /\ Head(sent) # LoadLua =>
              /\ cl.cache # <<>> /\ Head(sent) = Head(cl.cache)
              /\ Len(from) + 1 \in 1..Len(cl.callbacks)
              /\ cl.callbacks[Len(from) + 1] = "msg"
<1> DEFINE n == Len(cl.callbacks)
           k == Len(from)
<1>1. /\ n \in Nat /\ k \in Nat /\ Len(sent) \in Nat \ {0} /\ n = k + Len(sent)
      /\ Len(Append(from, r)) = k + 1 /\ Len(Tail(sent)) = Len(sent) - 1
      /\ \A i \in 1..k : Append(from, r)[i] = from[i]
      /\ Append(from, r)[k + 1] = r
      /\ \A i \in 1..Len(sent) - 1 : Tail(sent)[i] = sent[i + 1]
      /\ Head(sent) = sent[1]
  BY AppendFacts, TailFacts, LenProperties DEF Aligned
<1>2. \A i \in 1..n : cl.callbacks[i] \in {"msg", "lua"}
  OBVIOUS
<1> HIDE DEF n, k
<1>4. ASSUME NEW x \in Replies, NEW m, ReplyFits(x, m, ex)
      PROVE  ReplyFits(x, m, after)
  BY <1>4 DEF ReplyFits
<1>5. \A i \in 1..k : from[i] \in Replies
  BY DEF k
<1>6. k + 1 \in 1..n /\ CallbackFits(cl, from, sent, ex, k + 1)
  BY <1>1 DEF Aligned, n
<1>7. \/ cl.callbacks[k + 1] = "lua" /\ Head(sent) = LoadLua
      \/ /\ cl.callbacks[k + 1] = "msg" /\ cl.doing /\ cl.cache # <<>>
         /\ Head(sent) = Head(cl.cache)
  <2>1. ~(k + 1 <= k) /\ (k + 1) - k = 1
    BY <1>1
  <2>2. QED
    BY <1>1, <1>2, <1>6, <2>1 DEF CallbackFits, k
<1>8. cl.callbacks[k + 1] = "msg" => Head(sent) # LoadLua
  <2>1. ASSUME cl.cache # <<>> PROVE Head(cl.cache) # LoadLua
    <3>1. Head(cl.cache) \in Cmds
      BY <2>1
    <3>2. QED
      BY <3>1 DEF Cmds, LoadLua, ClusterSlots
  <2>2. QED
    BY <1>7, <2>1
<1>9. ASSUME NEW i \in 1..n
      PROVE  CallbackFits(cl, Append(from, r), Tail(sent), after, i)
  <2>1. CallbackFits(cl, from, sent, ex, i)
    BY DEF Aligned, n
  <2>2. CASE i <= k
    <3>1. i \in 1..k /\ i <= k + 1 /\ Append(from, r)[i] = from[i]
      BY <1>1, <2>2
    <3>2. QED
      BY <1>1, <1>4, <1>5, <2>1, <2>2, <3>1 DEF CallbackFits, k
  <2>3. CASE i = k + 1
    <3>1. i <= k + 1 /\ Append(from, r)[i] = r
      BY <1>1, <2>3
    <3>2. QED
      BY <1>1, <1>7, <1>8, <2>3, <3>1 DEF CallbackFits, k
  <2>4. CASE i > k + 1
    <3>1. /\ ~(i <= k) /\ ~(i <= k + 1) /\ i - (k + 1) \in 1..Len(sent) - 1
          /\ (i - (k + 1)) + 1 = i - k
      BY <1>1, <2>4
    <3>2. Tail(sent)[i - (k + 1)] = sent[i - k]
      BY <1>1, <3>1
    <3>3. QED
      BY <1>1, <2>1, <3>1, <3>2 DEF CallbackFits, k
  <2>5. QED
    BY <1>1, <2>2, <2>3, <2>4
<1>10. Aligned(cl, Append(from, r), Tail(sent), after)
  <2>1. Len(cl.callbacks) = Len(Append(from, r)) + Len(Tail(sent))
    BY <1>1 DEF n
  <2>2. QED
    BY <1>9, <2>1 DEF Aligned, n
<1>11. QED
  BY <1>6, <1>7, <1>10 DEF n, k

\* The first answer is taken, with its callback.
LEMMA ReplyAligned ==
  ASSUME NEW cl, NEW nx, NEW from \in Seq(Replies), NEW sent \in Seq(Requests),
         NEW ex,
         cl.callbacks \in Seq({"msg", "lua"}),
         Aligned(cl, from, sent, ex), from # <<>>,
         nx.callbacks = Tail(cl.callbacks),
         Head(cl.callbacks) = "msg" \/ Keeps(cl, nx)
  PROVE  /\ cl.callbacks # <<>>
         /\ Aligned(nx, Tail(from), sent, ex)
         /\ Head(cl.callbacks) = "msg" => NoMsg(nx.callbacks)
         /\ NoMsg(cl.callbacks) => NoMsg(nx.callbacks)
<1> DEFINE n == Len(cl.callbacks)
           k == Len(from)
<1>1. /\ n \in Nat /\ k \in Nat \ {0} /\ Len(sent) \in Nat /\ n = k + Len(sent)
      /\ Len(Tail(from)) = k - 1
      /\ \A i \in 1..k - 1 : Tail(from)[i] = from[i + 1]
  BY TailFacts, LenProperties DEF Aligned
<1>2. cl.callbacks # <<>>
  BY <1>1
<1>3. /\ Len(nx.callbacks) = n - 1 /\ Head(cl.callbacks) = cl.callbacks[1]
      /\ \A i \in 1..n - 1 : nx.callbacks[i] = cl.callbacks[i + 1]
  BY <1>2, TailFacts
<1> HIDE DEF n, k
<1>4. Head(cl.callbacks) = "msg" => NoMsg(nx.callbacks)
  <2>1. SUFFICES ASSUME Head(cl.callbacks) = "msg", NEW i \in 1..n - 1
                 PROVE  nx.callbacks[i] # "msg"
    BY <1>3 DEF NoMsg
  <2>2. 1 \in 1..n /\ i + 1 \in 1..n /\ i + 1 # 1
    BY <1>1
  <2>3. cl.callbacks[i + 1] # "msg"
    BY <1>3, <2>1, <2>2 DEF Aligned, n
  <2>4. QED
    BY <1>3, <2>3
<1>5. ASSUME NEW i \in 1..n - 1 PROVE CallbackFits(nx, Tail(from), sent, ex, i)
  <2>1. /\ i + 1 \in 1..n /\ CallbackFits(cl, from, sent, ex, i + 1)
        /\ nx.callbacks[i] = cl.callbacks[i + 1]
    BY <1>1, <1>3 DEF Aligned, n
  <2>2. /\ i <= k - 1 <=> i + 1 <= k
        /\ i <= k - 1 => Tail(from)[i] = from[i + 1]
        /\ i - (k - 1) = (i + 1) - k
    BY <1>1
  <2>3. CASE cl.callbacks[i + 1] = "lua"
    BY <1>1, <2>1, <2>2, <2>3 DEF CallbackFits, k
  <2>4. CASE cl.callbacks[i + 1] # "lua"
    <3>1. Keeps(cl, nx)
      <4>1. cl.callbacks[i + 1] = "msg"
        BY <2>1, <2>4 DEF n
      <4>2. ~NoMsg(nx.callbacks)
        BY <1>3, <2>1, <4>1 DEF NoMsg
      <4>3. QED
        BY <1>4, <4>2
    <3>2. QED
      BY <1>1, <2>1, <2>2, <2>4, <3>1 DEF CallbackFits, Keeps, k
  <2>5. QED
    BY <2>3, <2>4
<1>6. ASSUME NEW i \in 1..n - 1, NEW j \in 1..n - 1,
             nx.callbacks[i] = "msg", nx.callbacks[j] = "msg"
      PROVE  i = j
  <2>1. i + 1 \in 1..n /\ j + 1 \in 1..n
    BY <1>1
  <2>2. i + 1 = j + 1
    BY <1>3, <1>6, <2>1 DEF Aligned, n
  <2>3. QED
    BY <1>1, <2>2
<1>7. Aligned(nx, Tail(from), sent, ex)
  <2>1. Len(nx.callbacks) = Len(Tail(from)) + Len(sent)
    BY <1>1, <1>3
  <2>2. QED
    BY <1>3, <1>5, <1>6, <2>1 DEF Aligned
<1>8. NoMsg(cl.callbacks) => NoMsg(nx.callbacks)
  <2>1. \A i \in 1..n - 1 : i + 1 \in 1..n
    BY <1>1
  <2>2. QED
    BY <1>3, <2>1 DEF NoMsg, n
<1>9. QED
  BY <1>2, <1>4, <1>7, <1>8

-----------------------------------------------------------------------------
(***************************************************************************)
(* Reading.                                                                *)
(***************************************************************************)

\* The queue after the first command was taken.
LEMMA AscendingTail ==
  ASSUME NEW q \in Seq(UserCmds), q # <<>>, Ascending(q)
  PROVE  Ascending(Tail(q))
<1>1. /\ Len(q) \in Nat /\ Len(Tail(q)) = Len(q) - 1
      /\ \A i \in 1..Len(q) - 1 : Tail(q)[i] = q[i + 1] /\ i + 1 \in 1..Len(q)
  BY TailFacts
<1>2. \A i, j \in 1..Len(q) - 1 : i < j => i + 1 < j + 1
  BY <1>1
<1>3. QED
  BY <1>1, <1>2 DEF Ascending

\* The first answer is the one for the front command, or the script's.
LEMMA FirstReply ==
  ASSUME NEW cl, NEW from, NEW to, NEW ex, Context(cl, from, to, ex),
         from # <<>>
  PROVE  /\ Head(from) \in Replies /\ Tail(from) \in Seq(Replies)
         /\ cl.callbacks # <<>> /\ Head(cl.callbacks) \in {"msg", "lua"}
         /\ Head(from) = from[1] /\ Head(cl.callbacks) = cl.callbacks[1]
         /\ Len(from) \in Nat \ {0} /\ Len(Tail(from)) = Len(from) - 1
         /\ \A i \in 1..Len(from) - 1 : /\ Tail(from)[i] = from[i + 1]
                                        /\ Tail(cl.callbacks)[i] = cl.callbacks[i + 1]
         /\ \A i \in 1..Len(from) : i \in 1..Len(cl.callbacks)
         /\ Head(cl.callbacks) = "lua" => Head(from).kind = "ok"
         /\ Head(cl.callbacks) = "msg" =>
              /\ cl.doing /\ cl.cache # <<>>
              /\ ReplyFits(Head(from), Head(cl.cache), ex)
              /\ \A i \in 1..Len(from) : cl.callbacks[i] = "msg" => i = 1
<1> DEFINE sent == to \o cl.obuf
<1>1. /\ from \in Seq(Replies) /\ cl.callbacks \in Seq({"msg", "lua"})
      /\ sent \in Seq(Requests) /\ Aligned(cl, from, sent, ex)
  <2>1. to \in Seq(Requests) /\ cl.obuf \in Seq(Requests)
    BY DEF Context, ClientStates
  <2>2. from \in Seq(Replies) /\ cl.callbacks \in Seq({"msg", "lua"})
    BY DEF Context, ClientStates
  <2>3. QED
    BY <2>1, <2>2, ConcatFacts DEF Context
<1> HIDE DEF sent
<1>2. /\ Len(from) \in Nat \ {0} /\ Len(sent) \in Nat
      /\ Len(cl.callbacks) = Len(from) + Len(sent)
      /\ Head(from) \in Replies /\ Tail(from) \in Seq(Replies)
      /\ Head(from) = from[1] /\ Len(Tail(from)) = Len(from) - 1
      /\ \A i \in 1..Len(from) - 1 : Tail(from)[i] = from[i + 1]
  BY <1>1, TailFacts, LenProperties DEF Aligned
<1>3. cl.callbacks # <<>>
  BY <1>1, <1>2
<1>4. /\ Head(cl.callbacks) \in {"msg", "lua"} /\ Head(cl.callbacks) = cl.callbacks[1]
      /\ \A i \in 1..Len(cl.callbacks) - 1 : Tail(cl.callbacks)[i] = cl.callbacks[i + 1]
  BY <1>1, <1>3, TailFacts
<1>5. /\ 1 \in 1..Len(cl.callbacks) /\ 1 <= Len(from)
      /\ \A i \in 1..Len(from) : i \in 1..Len(cl.callbacks)
      /\ \A i \in 1..Len(from) - 1 : i \in 1..Len(cl.callbacks) - 1
  BY <1>2
<1>6. CallbackFits(cl, from, sent, ex, 1)
  BY <1>1, <1>5 DEF Aligned
<1>7. Head(cl.callbacks) = "lua" => Head(from).kind = "ok"
  BY <1>2, <1>4, <1>5, <1>6 DEF CallbackFits
<1>8. Head(cl.callbacks) = "msg" =>
        cl.doing /\ cl.cache # <<>> /\ ReplyFits(Head(from), Head(cl.cache), ex)
  BY <1>2, <1>4, <1>5, <1>6 DEF CallbackFits
<1>9. Head(cl.callbacks) = "msg" =>
        \A i \in 1..Len(from) : cl.callbacks[i] = "msg" => i = 1
  BY <1>1, <1>4, <1>5 DEF Aligned
<1>10. QED
  BY <1>2, <1>3, <1>4, <1>5, <1>7, <1>8, <1>9

\* One answer is taken: the client stays as it should be, a command leaves the
\* queue only when it was executed, and the map comes to the bootstrap client.
LEMMA ReplyStep ==
  ASSUME ConstantsAssumption, NEW c \in Clients, NEW cl, NEW from, NEW to,
         NEW sl, NEW ex \in Seq(UserCmds),
         ClientInv(c, cl, from, to, sl, ex), cl.conn \in {"up", "closing"},
         from # <<>>
  PROVE  LET nx == OnReply(cl, Head(from))
         IN /\ ClientInv(c, nx, Tail(from), to, sl, ex)
            /\ nx.conn \in {"up", "closing"} /\ nx.made = cl.made
            /\ ToSet(nx.cache) \subseteq ToSet(cl.cache)
            /\ \A m \in ToSet(cl.cache) \ ToSet(nx.cache) :
                 m \in ToSet(ex) \cup {ClusterSlots}
            /\ cl.cache = <<>> => nx.cache = <<>>
            /\ Head(from).kind = "slots" => c = Boot /\ nx.cache = <<>>
<1> DEFINE r == Head(from)
           nx == OnReply(cl, r)
           sent == to \o cl.obuf
<1>1. /\ r \in Replies /\ Tail(from) \in Seq(Replies) /\ cl.callbacks # <<>>
      /\ Head(cl.callbacks) \in {"msg", "lua"} /\ Head(cl.callbacks) = cl.callbacks[1]
      /\ r = from[1]
      /\ Len(from) \in Nat \ {0} /\ Len(Tail(from)) = Len(from) - 1
      /\ \A i \in 1..Len(from) - 1 : /\ Tail(from)[i] = from[i + 1]
                                     /\ Tail(cl.callbacks)[i] = cl.callbacks[i + 1]
      /\ \A i \in 1..Len(from) : i \in 1..Len(cl.callbacks)
      /\ Head(cl.callbacks) = "lua" => r.kind = "ok"
      /\ Head(cl.callbacks) = "msg" =>
           /\ cl.doing /\ cl.cache # <<>> /\ ReplyFits(r, Head(cl.cache), ex)
           /\ \A i \in 1..Len(from) : cl.callbacks[i] = "msg" => i = 1
  BY FirstReply DEF ClientInv
<1>2. /\ cl \in ClientStates /\ from \in Seq(Replies) /\ to \in Seq(Requests)
      /\ Aligned(cl, from, sent, ex)
      /\ cl.made
      /\ cl.newAddr # NoNode <=> cl.conn = "closing"
      /\ cl.conn = "closing" => NoMsg(cl.callbacks)
  BY DEF ClientInv, Context, NoClient, NoMsg
<1>3. /\ cl.callbacks \in Seq({"msg", "lua"}) /\ cl.cache \in Seq(Cmds)
      /\ cl.obuf \in Seq(Requests) /\ sent \in Seq(Requests)
      /\ Tail(cl.callbacks) \in Seq({"msg", "lua"})
      /\ cl.cache # <<>> => /\ Head(cl.cache) \in Cmds /\ Tail(cl.cache) \in Seq(Cmds)
                            /\ ToSet(cl.cache) = {Head(cl.cache)} \cup ToSet(Tail(cl.cache))
  <2>1. /\ cl.callbacks \in Seq({"msg", "lua"}) /\ cl.cache \in Seq(Cmds)
        /\ cl.obuf \in Seq(Requests)
    BY <1>2 DEF ClientStates
  <2>2. QED
    BY <1>1, <1>2, <2>1, TailFacts, ConcatFacts
<1>4. CASE Head(cl.callbacks) = "lua"
  <2>1. nx = [cl EXCEPT !.callbacks = Tail(cl.callbacks)]
    BY <1>4 DEF OnReply, ForMsgback
  <2>2. /\ nx \in ClientStates /\ nx.callbacks = Tail(cl.callbacks)
        /\ nx.obuf = cl.obuf /\ nx.conn = cl.conn /\ nx.made = cl.made
        /\ nx.newAddr = cl.newAddr /\ nx.doing = cl.doing /\ nx.cache = cl.cache
    BY <1>2, <1>3, <2>1 DEF ClientStates
  <2> HIDE DEF nx
  <2>3. Aligned(nx, Tail(from), sent, ex) /\ (NoMsg(cl.callbacks) => NoMsg(nx.callbacks))
    <3>1. Keeps(cl, nx)
      BY <2>2 DEF Keeps
    <3>2. QED
      BY <1>2, <1>3, <2>2, <3>1, ReplyAligned
  <2>4. Context(nx, Tail(from), to, ex)
    BY <1>1, <1>2, <2>2, <2>3 DEF Context, NoMsg
  <2>5. Holds(c, nx, sl)
    BY <2>2 DEF ClientInv, Holds
  <2>6. Answered(cl, from) => Answered(nx, Tail(from))
    <3>1. SUFFICES ASSUME NEW i \in 1..Len(from), cl.callbacks[i] = "msg",
                          from[i].kind = "ok"
                   PROVE  Answered(nx, Tail(from))
      BY DEF Answered
    <3>2. i # 1 /\ i - 1 \in 1..Len(from) - 1 /\ (i - 1) + 1 = i
      BY <1>1, <1>4, <3>1
    <3>3. nx.callbacks[i - 1] = "msg" /\ Tail(from)[i - 1].kind = "ok"
      BY <1>1, <2>2, <3>1, <3>2
    <3>4. QED
      BY <1>1, <3>2, <3>3 DEF Answered
  <2>7. Behind(c, nx, Tail(from), sl, ex)
    BY <2>2, <2>6 DEF ClientInv, Behind
  <2>8. QED
    BY <1>1, <1>2, <1>4, <2>2, <2>4, <2>5, <2>7 DEF ClientInv, nx
<1>5. CASE Head(cl.callbacks) = "msg" /\ r.kind # "moved"
  <2>1. nx = [cl EXCEPT !.callbacks = Tail(cl.callbacks), !.doing = FALSE,
                        !.cache = Tail(cl.cache)]
    BY <1>1, <1>5 DEF OnReply, ForMsgback, GetMsgback, Popped
  <2>2. /\ nx \in ClientStates /\ nx.callbacks = Tail(cl.callbacks)
        /\ nx.obuf = cl.obuf /\ nx.conn = cl.conn /\ nx.made = cl.made
        /\ nx.newAddr = cl.newAddr /\ nx.doing = FALSE /\ nx.cache = Tail(cl.cache)
    BY <1>1, <1>2, <1>3, <1>5, <2>1, ZenonT(40) DEF ClientStates
  <2> HIDE DEF nx
  <2>3. Aligned(nx, Tail(from), sent, ex) /\ NoMsg(nx.callbacks)
    BY <1>2, <1>3, <1>5, <2>2, ReplyAligned
  <2>4. Context(nx, Tail(from), to, ex)
    BY <1>1, <1>2, <2>2, <2>3 DEF Context, NoMsg
  <2>5. c = Boot => cl.cache = <<ClusterSlots>> /\ nx.cache = <<>>
    <3>1. c = Boot => cl.cache = <<ClusterSlots>>
      BY <1>1, <1>5 DEF ClientInv, Holds
    <3>2. Tail(<<ClusterSlots>>) = <<>>
      OBVIOUS
    <3>3. QED
      BY <2>2, <3>1, <3>2
  <2>6. c # Boot => /\ cl.cache \in Seq(UserCmds) /\ nx.cache \in Seq(UserCmds)
                    /\ Len(cl.cache) \in Nat /\ Len(nx.cache) = Len(cl.cache) - 1
                    /\ Head(cl.cache) \in UserCmds
                    /\ \A i \in 1..Len(nx.cache) : /\ nx.cache[i] = cl.cache[i + 1]
                                                   /\ i + 1 \in 1..Len(cl.cache)
                                                   /\ i + 1 # 1
    BY <1>1, <1>5, <2>2, TailFacts DEF ClientInv, Holds
  <2>7. Holds(c, nx, sl)
    BY <2>2, <2>5, <2>6 DEF ClientInv, Holds
  <2>8. Behind(c, nx, Tail(from), sl, ex)
    <3>1. SUFFICES ASSUME c # Boot
                   PROVE  /\ Ascending(nx.cache)
                          /\ \A k \in 1..Len(ex), i \in 1..Len(nx.cache) :
                               sl[ex[k].slot] = c => ex[k].id < nx.cache[i].id
      BY DEF Behind
    <3>2. Ascending(nx.cache)
      BY <1>1, <1>5, <2>2, <2>6, <3>1, AscendingTail DEF ClientInv, Behind
    <3>3. QED
      BY <2>6, <3>1, <3>2 DEF ClientInv, Behind
  <2>9. Head(cl.cache) \in ToSet(ex) \cup {ClusterSlots}
    <3>1. r.kind \in {"ok", "moved", "slots"}
      BY <1>1 DEF Replies
    <3>2. QED
      BY <1>1, <1>5, <3>1 DEF ReplyFits
  <2>10. r.kind = "slots" => c = Boot
    <3>1. r.kind = "slots" => Head(cl.cache).kind = "slots"
      BY <1>1, <1>5 DEF ReplyFits, ClusterSlots
    <3>2. c # Boot => Head(cl.cache).kind = "user"
      BY <2>6 DEF UserCmds
    <3>3. QED
      BY <3>1, <3>2
  <2>11. QED
    BY <1>1, <1>2, <1>3, <1>5, <2>2, <2>4, <2>5, <2>7, <2>8, <2>9, <2>10
       DEF ClientInv, nx
<1>6. CASE Head(cl.callbacks) = "msg" /\ r.kind = "moved"
  <2>1. nx = [cl EXCEPT !.callbacks = Tail(cl.callbacks), !.doing = FALSE,
                        !.cache = cl.cache, !.conn = "closing",
                        !.newAddr = r.addr]
    <3>1. <<Head(cl.cache)>> \o Tail(cl.cache) = cl.cache
      BY <1>1, <1>3, <1>6, HeadTailProperties, ConcatProperties
    <3>2. QED
      BY <1>1, <1>2, <1>6, <3>1 DEF OnReply, ForMsgback, GetMsgback, Popped, Moved,
                                    ClientStates
  <2>2. r.addr \in Nodes /\ r.addr # NoNode
    BY <1>1, <1>6 DEF Replies, ConstantsAssumption
  <2>3. /\ nx \in ClientStates /\ nx.callbacks = Tail(cl.callbacks)
        /\ nx.obuf = cl.obuf /\ nx.conn = "closing" /\ nx.made = cl.made
        /\ nx.newAddr = r.addr /\ nx.doing = FALSE /\ nx.cache = cl.cache
    <3>1. /\ nx.callbacks = Tail(cl.callbacks) /\ nx.obuf = cl.obuf
          /\ nx.conn = "closing" /\ nx.made = cl.made /\ nx.addr = cl.addr
          /\ nx.newAddr = r.addr /\ nx.doing = FALSE /\ nx.cache = cl.cache
      BY <1>2, <2>1 DEF ClientStates
    <3>2. nx \in ClientStates
      BY <1>2, <1>3, <2>1, <2>2 DEF ClientStates
    <3>3. QED
      BY <3>1, <3>2
  <2> HIDE DEF nx
  <2>4. Aligned(nx, Tail(from), sent, ex) /\ NoMsg(nx.callbacks)
    BY <1>2, <1>3, <1>6, <2>3, ReplyAligned
  <2>5. Context(nx, Tail(from), to, ex)
    BY <1>1, <1>2, <2>2, <2>3, <2>4 DEF Context, NoMsg
  <2>6. c # Boot
    <3>1. Head(cl.cache).kind = "user"
      BY <1>1, <1>6 DEF ReplyFits
    <3>2. Head(cl.cache) # ClusterSlots
      BY <3>1 DEF ClusterSlots
    <3>3. QED
      BY <1>1, <1>6, <3>2 DEF ClientInv, Holds
  <2>7. Holds(c, nx, sl)
    BY <2>3, <2>6 DEF ClientInv, Holds
  <2>8. ~Answered(cl, from)
    BY <1>1, <1>6 DEF Answered
  <2>9. Behind(c, nx, Tail(from), sl, ex)
    BY <2>3, <2>8 DEF ClientInv, Behind
  <2>10. QED
    BY <1>1, <1>2, <1>6, <2>3, <2>5, <2>7, <2>9 DEF ClientInv, nx
<1>7. QED
  BY <1>1, <1>4, <1>5, <1>6

\* What is left of the answers when some were read.
LEMMA RestOfAnswers ==
  ASSUME NEW S, NEW q \in Seq(S)
  PROVE  /\ SubSeq(q, 0 + 1, Len(q)) = q
         /\ \A i \in 0..Len(q) - 1 :
              LET rest == SubSeq(q, i + 1, Len(q))
              IN /\ rest \in Seq(S) /\ rest # <<>> /\ Head(rest) = q[i + 1]
                 /\ Tail(rest) = SubSeq(q, (i + 1) + 1, Len(q))
<1>1. Len(q) \in Nat /\ SubSeq(q, 1, Len(q)) = q
  BY LenProperties, SubSeqFull
<1>2. ASSUME NEW i \in 0..Len(q) - 1
      PROVE  LET rest == SubSeq(q, i + 1, Len(q))
             IN /\ rest \in Seq(S) /\ rest # <<>> /\ Head(rest) = q[i + 1]
                /\ Tail(rest) = SubSeq(q, (i + 1) + 1, Len(q))
  <2> DEFINE rest == SubSeq(q, i + 1, Len(q))
  <2>1. /\ i + 1 \in 1..Len(q) + 1 /\ Len(q) \in (i + 1) - 1..Len(q)
        /\ i + 1 <= Len(q) /\ i + 1 \in 1..Len(q) /\ Len(q) \in i + 1..Len(q)
        /\ (Len(q) - (i + 1)) + 1 # 0
        /\ Len(q) - (i + 1) \in Nat
    <3>1. \A n \in Nat : i \in 0..n - 1 =>
            /\ i + 1 \in 1..n + 1 /\ n \in (i + 1) - 1..n
            /\ i + 1 <= n /\ i + 1 \in 1..n /\ n \in i + 1..n
            /\ (n - (i + 1)) + 1 # 0 /\ n - (i + 1) \in Nat
      OBVIOUS
    <3>2. QED
      BY <1>1, <3>1
  <2>2. rest \in Seq(S) /\ Len(rest) = (Len(q) - (i + 1)) + 1
    BY <2>1, SubSeqProperties
  <2>3. rest # <<>>
    <3> DEFINE d == Len(q) - (i + 1)
    <3>1. d \in Nat /\ Len(rest) = d + 1
      BY <2>1, <2>2
    <3> HIDE DEF rest, d
    <3>2. QED
      BY <3>1
  <2>4. Head(rest) = q[i + 1] /\ Tail(rest) = SubSeq(q, (i + 1) + 1, Len(q))
    BY <1>1, <2>1, <2>3, HeadTailOfSubSeq
  <2>5. QED
    BY <2>2, <2>3, <2>4
<1>3. QED
  BY <1>1, <1>2

\* The same of all the answers that are read in one go.
LEMMA RepliesRead ==
  ASSUME ConstantsAssumption, NEW c \in Clients, NEW cl, NEW from, NEW to,
         NEW sl, NEW ex \in Seq(UserCmds),
         ClientInv(c, cl, from, to, sl, ex), cl.conn \in {"up", "closing"},
         NEW k \in 1..Len(from)
  PROVE  LET replies == SubSeq(from, 1, k)
             nx == OnReplies(cl, replies)
         IN /\ ClientInv(c, nx, SubSeq(from, k + 1, Len(from)), to, sl, ex)
            /\ nx.conn \in {"up", "closing"} /\ nx.made = cl.made
            /\ ToSet(nx.cache) \subseteq ToSet(cl.cache)
            /\ \A m \in ToSet(cl.cache) \ ToSet(nx.cache) :
                 m \in ToSet(ex) \cup {ClusterSlots}
            /\ SlotsLoaded(replies) =>
                 /\ c = Boot /\ nx.cache = <<>>
                 /\ TheSlots(replies) \in [Slots -> Nodes]
<1> DEFINE n == Len(from)
           q == SubSeq(from, 1, k)
           rest(i) == SubSeq(from, i + 1, n)
           Good(i, x) ==
             /\ ClientInv(c, x, rest(i), to, sl, ex)
             /\ x.conn \in {"up", "closing"} /\ x.made = cl.made
             /\ ToSet(x.cache) \subseteq ToSet(cl.cache)
             /\ \A m \in ToSet(cl.cache) \ ToSet(x.cache) :
                  m \in ToSet(ex) \cup {ClusterSlots}
             /\ (\E j \in 1..i : from[j].kind = "slots") =>
                  c = Boot /\ x.cache = <<>>
<1>1. from \in Seq(Replies) /\ cl \in ClientStates
  BY DEF ClientInv, Context
<1>2. /\ n \in Nat /\ k \in 1..n /\ rest(0) = from
      /\ \A i \in 0..n - 1 : /\ rest(i) \in Seq(Replies) /\ rest(i) # <<>>
                             /\ Head(rest(i)) = from[i + 1]
                             /\ Tail(rest(i)) = rest(i + 1)
  BY <1>1, LenProperties, RestOfAnswers
<1>3. /\ q \in Seq(Replies) /\ Len(q) = k
      /\ \A i \in 1..k : q[i] = from[i] /\ from[i] \in Replies
  <2>1. 1 \in 1..n + 1 /\ k \in 1 - 1..n /\ (k - 1) + 1 = k
    BY <1>2
  <2>2. q \in Seq(Replies) /\ Len(q) = (k - 1) + 1
        /\ \A i \in 1..(k - 1) + 1 : q[i] = from[1 + i - 1]
    BY <1>1, <2>1, SubSeqProperties
  <2>3. \A i \in 1..k : 1 + i - 1 = i /\ i \in 1..n
    BY <1>2
  <2>4. \A i \in 1..n : from[i] \in Replies
    BY <1>1
  <2>5. QED
    BY <2>1, <2>2, <2>3, <2>4
<1> HIDE DEF n, q, rest
<1> DEFINE G == [s \in ClientStates \X (1..k) |->
                   IF OnReply(s[1], q[s[2]]) \in ClientStates
                   THEN OnReply(s[1], q[s[2]]) ELSE s[1]]
           F(f) == f = [i \in 0..k |-> IF i = 0 THEN cl
                                       ELSE OnReply(f[i - 1], q[i])]
<1>4. /\ G \in [ClientStates \X (1..k) -> ClientStates]
      /\ \A x \in ClientStates, i \in 1..k :
           OnReply(x, q[i]) \in ClientStates => G[<<x, i>>] = OnReply(x, q[i])
  OBVIOUS
<1> HIDE DEF G
<1>5. PICK f : FoldOf(f, k, ClientStates, cl, G)
  <2>1. k \in Nat /\ G \in [ClientStates \X (1..k) -> ClientStates]
    BY <1>2, <1>4
  <2>2. QED
    BY <1>1, <2>1, FoldExists
<1>6. ASSUME NEW i \in 0..k - 1, NEW x, Good(i, x)
      PROVE  Good(i + 1, OnReply(x, q[i + 1])) /\ OnReply(x, q[i + 1]) \in ClientStates
  <2> DEFINE y == OnReply(x, q[i + 1])
  <2>1. i \in 0..n - 1 /\ i + 1 \in 1..k /\ q[i + 1] = Head(rest(i))
    <3>1. i \in 0..n - 1 /\ i + 1 \in 1..k
      BY <1>2
    <3>2. q[i + 1] = from[i + 1] /\ Head(rest(i)) = from[i + 1]
      BY <1>2, <1>3, <3>1
    <3>3. QED
      BY <3>1, <3>2
  <2>2. /\ ClientInv(c, y, rest(i + 1), to, sl, ex)
        /\ y.conn \in {"up", "closing"} /\ y.made = x.made
        /\ ToSet(y.cache) \subseteq ToSet(x.cache)
        /\ \A m \in ToSet(x.cache) \ ToSet(y.cache) :
             m \in ToSet(ex) \cup {ClusterSlots}
        /\ x.cache = <<>> => y.cache = <<>>
        /\ q[i + 1].kind = "slots" => c = Boot /\ y.cache = <<>>
    <3>1. rest(i) # <<>> /\ Tail(rest(i)) = rest(i + 1) /\ y = OnReply(x, Head(rest(i)))
      BY <1>2, <2>1
    <3>2. ClientInv(c, x, rest(i), to, sl, ex) /\ x.conn \in {"up", "closing"}
      BY <1>6
    <3> DEFINE z == OnReply(x, Head(rest(i)))
    <3>3. /\ ClientInv(c, z, Tail(rest(i)), to, sl, ex)
          /\ z.conn \in {"up", "closing"} /\ z.made = x.made
          /\ ToSet(z.cache) \subseteq ToSet(x.cache)
          /\ \A m \in ToSet(x.cache) \ ToSet(z.cache) :
               m \in ToSet(ex) \cup {ClusterSlots}
          /\ x.cache = <<>> => z.cache = <<>>
          /\ Head(rest(i)).kind = "slots" => c = Boot /\ z.cache = <<>>
      <4> HIDE DEF Good
      <4>1. QED
        BY <3>1, <3>2, ReplyStep
    <3>4. QED
      BY <2>1, <3>1, <3>3
  <2>3. (\E j \in 1..i + 1 : from[j].kind = "slots") => c = Boot /\ y.cache = <<>>
    <3>1. SUFFICES ASSUME NEW j \in 1..i + 1, from[j].kind = "slots"
                   PROVE  c = Boot /\ y.cache = <<>>
      OBVIOUS
    <3>2. CASE j = i + 1
      BY <1>3, <2>1, <2>2, <3>1, <3>2
    <3>3. CASE j \in 1..i
      BY <1>6, <2>2, <3>1, <3>3
    <3>4. QED
      BY <2>1, <3>2, <3>3
  <2>4. y \in ClientStates
    BY <2>2 DEF ClientInv, Context
  <2> HIDE DEF y
  <2>5. Good(i + 1, y)
    BY <1>6, <2>2, <2>3
  <2>6. QED
    BY <2>4, <2>5 DEF y
<1>7. Good(0, cl)
  <2>1. ~\E j \in 1..0 : from[j].kind = "slots"
    OBVIOUS
  <2>2. QED
    BY <1>2, <2>1
<1> HIDE DEF Good
<1>8. f \in [0..k -> ClientStates] /\ f[0] = cl
      /\ \A i \in 1..k : f[i] = G[<<f[i - 1], i>>]
  BY <1>5 DEF FoldOf
<1>9. ASSUME NEW i \in 0..k - 1, Good(i, f[i])
      PROVE  f[i + 1] = OnReply(f[i], q[i + 1]) /\ Good(i + 1, f[i + 1])
  <2>1. i + 1 \in 1..k /\ (i + 1) - 1 = i /\ i \in 0..k
    BY <1>2
  <2>2. f[i + 1] = G[<<f[i], i + 1>>] /\ f[i] \in ClientStates
    BY <1>8, <2>1
  <2>3. /\ Good(i + 1, OnReply(f[i], q[i + 1]))
        /\ OnReply(f[i], q[i + 1]) \in ClientStates
    BY <1>6, <1>9
  <2>4. QED
    BY <1>4, <2>1, <2>2, <2>3
<1>10. \A i \in 0..k : Good(i, f[i])
  <2> DEFINE T == {i \in Nat : i <= k => Good(i, f[i])}
  <2>1. 0 \in T
    BY <1>7, <1>8
  <2>2. ASSUME NEW i \in Nat, i \in T PROVE i + 1 \in T
    <3>1. SUFFICES ASSUME i + 1 <= k PROVE Good(i + 1, f[i + 1])
      OBVIOUS
    <3>2. i <= k /\ i \in 0..k - 1
      BY <1>2, <3>1
    <3>3. Good(i, f[i])
      BY <2>2, <3>2
    <3>4. QED
      BY <1>9, <3>2, <3>3
  <2>3. Nat \subseteq T
    <3> HIDE DEF T
    <3>1. QED
      BY <2>1, <2>2, InductiveSet
  <2>4. QED
    BY <1>2, <2>3
<1>11. F(f)
  <2>1. ASSUME NEW i \in 1..k PROVE f[i] = OnReply(f[i - 1], q[i])
    <3>1. i - 1 \in 0..k - 1 /\ i - 1 \in 0..k /\ (i - 1) + 1 = i
      BY <1>2
    <3>2. QED
      BY <1>9, <1>10, <3>1
  <2>2. QED
    BY <1>2, <1>8, <2>1
<1>12. ASSUME NEW g, F(g) PROVE g = f
  <2>1. g[0] = cl /\ \A i \in 1..k : g[i] = OnReply(g[i - 1], q[i])
    BY <1>2, <1>12
  <2>2. \A i \in 0..k - 1 : i + 1 \in 1..k /\ (i + 1) - 1 = i
    BY <1>2
  <2>3. ASSUME NEW i \in 0..k - 1, g[i] = f[i] PROVE g[i + 1] = f[i + 1]
    <3>1. g[i + 1] = OnReply(g[i], q[i + 1])
      BY <2>1, <2>2
    <3>2. f[i + 1] = OnReply(f[i], q[i + 1])
      BY <1>2, <1>9, <1>10
    <3>3. QED
      BY <2>3, <3>1, <3>2
  <2>4. k \in Nat /\ g[0] = f[0]
    BY <1>2, <1>8, <2>1
  <2>5. \A i \in 0..k : g[i] = f[i]
    <3>1. GoAlike(g, f, k)
      BY <2>3, <2>4 DEF GoAlike
    <3>2. k \in Nat
      BY <2>4
    <3>3. QED
      BY <3>1, <3>2, FoldUnique
  <2>6. QED
    BY <1>8, <1>12, <2>5
<1>13. OnReplies(cl, q) = f[k]
  <2>1. OnReplies(cl, q) = (CHOOSE g : F(g))[k]
    BY <1>3 DEF OnReplies
  <2>2. (CHOOSE g : F(g)) = f
    <3> HIDE DEF F
    <3>1. QED
      BY <1>11, <1>12
  <2>3. QED
    BY <2>1, <2>2
<1>14. Good(k, OnReplies(cl, q))
  BY <1>2, <1>10, <1>13
<1>15. SlotsLoaded(q) => \E j \in 1..k : from[j].kind = "slots"
  BY <1>3 DEF SlotsLoaded
<1>16. SlotsLoaded(q) => TheSlots(q) \in [Slots -> Nodes]
  <2>1. ToSet(q) \subseteq Replies
    BY <1>3 DEF ToSet
  <2>2. SlotsLoaded(q) => \E r \in ToSet(q) : r.kind = "slots"
    BY <1>3 DEF SlotsLoaded, ToSet
  <2>3. ASSUME NEW r \in Replies, r.kind = "slots" PROVE r.map \in [Slots -> Nodes]
    BY <2>3 DEF Replies
  <2>4. QED
    BY <2>1, <2>2, <2>3 DEF TheSlots
<1>17. QED
  BY <1>14, <1>15, <1>16 DEF Good, q, rest, n

-----------------------------------------------------------------------------
(***************************************************************************)
(* The timer.                                                              *)
(***************************************************************************)

\* The commands of a client, in their order.
LEMMA ForClientFacts ==
  ASSUME NEW cmds \in Seq(UserCmds), Ascending(cmds), NEW c
  PROVE  LET mine == ForClient(cmds, c)
         IN /\ mine \in Seq(UserCmds) /\ Ascending(mine)
            /\ ToSet(mine) = {m \in ToSet(cmds) : slots[m.slot] = c}
<1> DEFINE n == Len(cmds)
           S == Seq(UserCmds)
           Next1(x, i) == IF slots[cmds[i].slot] = c THEN Append(x, cmds[i]) ELSE x
           G == [s \in S \X (1..n) |-> Next1(s[1], s[2])]
           Good(i, x) ==
             /\ x \in S /\ Ascending(x)
             /\ ToSet(x) = {cmds[j] : j \in {j \in 1..i : slots[cmds[j].slot] = c}}
           F(f) == f = [i \in 0..n |->
                          IF i = 0 THEN <<>> ELSE Next1(f[i - 1], i)]
<1>1. /\ n \in Nat /\ DOMAIN cmds = 1..n
      /\ \A i \in 1..n : cmds[i] \in UserCmds
      /\ \A i, j \in 1..n : i < j => cmds[i].id < cmds[j].id
  BY LenProperties DEF Ascending
<1> HIDE DEF n
<1>2. \A x \in S, i \in 1..n : Next1(x, i) \in S
  BY <1>1
<1>3. /\ G \in [S \X (1..n) -> S]
      /\ \A x \in S, i \in 1..n : G[<<x, i>>] = Next1(x, i)
  <2> HIDE DEF S, Next1
  <2>1. QED
    BY <1>2
<1>4. Good(0, <<>>)
  <2>1. <<>> \in S /\ Ascending(<<>>) /\ ToSet(<<>>) = {}
    BY DEF Ascending, ToSet
  <2>2. QED
    BY <2>1
<1>5. ASSUME NEW i \in 0..n - 1, NEW x, Good(i, x) PROVE Good(i + 1, Next1(x, i + 1))
  <2>1. i + 1 \in 1..n /\ cmds[i + 1] \in UserCmds
    BY <1>1
  <2>2. CASE slots[cmds[i + 1].slot] # c
    <3>1. Next1(x, i + 1) = x
      BY <2>2
    <3>2. {j \in 1..i : slots[cmds[j].slot] = c}
          = {j \in 1..i + 1 : slots[cmds[j].slot] = c}
      BY <2>1, <2>2
    <3>3. QED
      BY <1>5, <3>1, <3>2
  <2>3. CASE slots[cmds[i + 1].slot] = c
    <3>1. Next1(x, i + 1) = Append(x, cmds[i + 1])
      BY <2>3
    <3> DEFINE y == Append(x, cmds[i + 1])
    <3>2. /\ y \in S /\ Len(x) \in Nat /\ Len(y) = Len(x) + 1 /\ DOMAIN x = 1..Len(x)
          /\ \A k \in 1..Len(x) : y[k] = x[k]
          /\ y[Len(x) + 1] = cmds[i + 1]
          /\ ToSet(y) = ToSet(x) \cup {cmds[i + 1]}
      BY <1>5, <2>1, AppendFacts, LenProperties
    <3> HIDE DEF y
    <3>3. ASSUME NEW k \in 1..Len(x) PROVE x[k].id < cmds[i + 1].id
      <4>1. x[k] \in ToSet(x)
        BY <3>2 DEF ToSet
      <4>2. PICK j \in 1..i : x[k] = cmds[j]
        BY <1>5, <4>1
      <4>3. j \in 1..n /\ j < i + 1
        BY <1>1, <2>1
      <4>4. QED
        BY <1>1, <2>1, <4>2, <4>3
    <3>4. Ascending(y)
      <4>1. SUFFICES ASSUME NEW k \in 1..Len(x) + 1, NEW l \in 1..Len(x) + 1, k < l
                     PROVE  y[k].id < y[l].id
        BY <3>2 DEF Ascending
      <4>2. k \in 1..Len(x)
        BY <3>2, <4>1
      <4>3. CASE l = Len(x) + 1
        BY <3>2, <3>3, <4>2, <4>3
      <4>4. CASE l \in 1..Len(x)
        BY <1>5, <3>2, <4>1, <4>2, <4>4 DEF Ascending
      <4>5. QED
        BY <3>2, <4>3, <4>4
    <3>5. {j \in 1..i + 1 : slots[cmds[j].slot] = c}
          = {j \in 1..i : slots[cmds[j].slot] = c} \cup {i + 1}
      BY <2>1, <2>3
    <3>6. QED
      BY <1>5, <3>1, <3>2, <3>4, <3>5 DEF y
  <2>4. QED
    BY <2>2, <2>3
<1>6. PICK f : FoldOf(f, n, S, <<>>, G)
  <2>1. <<>> \in S
    OBVIOUS
  <2> HIDE DEF S, G
  <2>2. QED
    BY <1>1, <1>3, <2>1, FoldExists
<1>7. /\ f \in [0..n -> S] /\ f[0] = <<>>
      /\ \A i \in 1..n : f[i] = Next1(f[i - 1], i)
  <2> HIDE DEF S, G, Next1
  <2>1. \A i \in 1..n : i - 1 \in 0..n
    BY <1>1
  <2>2. QED
    BY <1>3, <1>6, <2>1 DEF FoldOf
<1>8. \A i \in 0..n : Good(i, f[i])
  <2> HIDE DEF Good, Next1
  <2> DEFINE T == {i \in Nat : i <= n => Good(i, f[i])}
  <2>1. 0 \in T
    BY <1>4, <1>7
  <2>2. ASSUME NEW i \in Nat, i \in T PROVE i + 1 \in T
    <3>1. SUFFICES ASSUME i + 1 <= n PROVE Good(i + 1, f[i + 1])
      OBVIOUS
    <3>2. i <= n /\ i \in 0..n - 1 /\ i + 1 \in 1..n /\ (i + 1) - 1 = i
      BY <1>1, <3>1
    <3>3. Good(i, f[i]) /\ f[i + 1] = Next1(f[i], i + 1)
      BY <1>7, <2>2, <3>2
    <3>4. QED
      BY <1>5, <3>2, <3>3
  <2>3. Nat \subseteq T
    <3> HIDE DEF T
    <3>1. QED
      BY <2>1, <2>2, InductiveSet
  <2>4. QED
    BY <1>1, <2>3
<1>9. F(f)
  <2> HIDE DEF Next1
  <2>1. QED
    BY <1>1, <1>7
<1>10. ASSUME NEW g, F(g) PROVE g = f
  <2>1. g[0] = <<>> /\ \A i \in 1..n : g[i] = Next1(g[i - 1], i)
    <3> HIDE DEF Next1
    <3>1. QED
      BY <1>1, <1>10
  <2>2. GoAlike(g, f, n)
    <3> HIDE DEF Next1, F
    <3>1. \A i \in 0..n - 1 : i + 1 \in 1..n /\ (i + 1) - 1 = i
      BY <1>1
    <3>2. \A i \in 0..n - 1 : /\ g[i + 1] = Next1(g[i], i + 1)
                              /\ f[i + 1] = Next1(f[i], i + 1)
      BY <1>7, <2>1, <3>1
    <3>3. QED
      BY <1>7, <2>1, <3>2 DEF GoAlike
  <2>3. \A i \in 0..n : g[i] = f[i]
    BY <1>1, <2>2, FoldUnique
  <2>4. QED
    BY <1>7, <1>10, <2>3
<1>11. ForClient(cmds, c) = f[n]
  <2>1. ForClient(cmds, c) = (CHOOSE g : F(g))[n]
    BY DEF ForClient, n
  <2>2. (CHOOSE g : F(g)) = f
    <3> HIDE DEF F
    <3>1. QED
      BY <1>9, <1>10
  <2>3. QED
    BY <2>1, <2>2
<1>12. Good(n, ForClient(cmds, c))
  <2> HIDE DEF Good
  <2>1. n \in 0..n
    BY <1>1
  <2>2. QED
    BY <1>8, <1>11, <2>1
<1>13. {cmds[j] : j \in {j \in 1..n : slots[cmds[j].slot] = c}}
       = {m \in ToSet(cmds) : slots[m.slot] = c}
  BY <1>1 DEF ToSet
<1>14. QED
  BY <1>12, <1>13

\* The fields of a client.
LEMMA ClientTypes ==
  ASSUME NEW cl, NEW from, NEW to, NEW ex, Context(cl, from, to, ex)
  PROVE  /\ cl \in ClientStates /\ from \in Seq(Replies) /\ to \in Seq(Requests)
         /\ cl.made \in BOOLEAN /\ cl.doing \in BOOLEAN
         /\ cl.cache \in Seq(Cmds) /\ cl.callbacks \in Seq({"msg", "lua"})
         /\ cl.obuf \in Seq(Requests) /\ to \o cl.obuf \in Seq(Requests)
         /\ cl.conn \in {"none", "dead", "connecting", "up", "closing", "freed"}
         /\ Aligned(cl, from, to \o cl.obuf, ex)
         /\ Len(from) \in Nat /\ Len(cl.callbacks) \in Nat
         /\ \A i \in 1..Len(from) : i \in 1..Len(cl.callbacks)
<1>1. /\ cl \in ClientStates /\ from \in Seq(Replies) /\ to \in Seq(Requests)
      /\ cl.made \in BOOLEAN /\ cl.doing \in BOOLEAN
      /\ cl.cache \in Seq(Cmds) /\ cl.callbacks \in Seq({"msg", "lua"})
      /\ cl.obuf \in Seq(Requests)
      /\ cl.conn \in {"none", "dead", "connecting", "up", "closing", "freed"}
      /\ Aligned(cl, from, to \o cl.obuf, ex)
  BY DEF Context, ClientStates
<1>2. to \o cl.obuf \in Seq(Requests) /\ Len(to \o cl.obuf) \in Nat
  BY <1>1, ConcatFacts, LenProperties
<1>3. /\ Len(from) \in Nat
      /\ Len(cl.callbacks) = Len(from) + Len(to \o cl.obuf)
  BY <1>1, LenProperties DEF Aligned
<1>4. QED
  BY <1>1, <1>2, <1>3

\* Where no command is under way no callback waits for its answer.
LEMMA NotDoing ==
  ASSUME NEW cl, NEW from, NEW to, NEW ex, Context(cl, from, to, ex), ~cl.doing
  PROVE  NoMsg(cl.callbacks)
<1>1. SUFFICES ASSUME NEW i \in 1..Len(cl.callbacks), cl.callbacks[i] = "msg"
               PROVE  FALSE
  BY DEF NoMsg
<1>2. CallbackFits(cl, from, to \o cl.obuf, ex, i)
  BY DEF Context, Aligned
<1>3. QED
  BY <1>1, <1>2 DEF CallbackFits

\* The callbacks did not change, nor what they stand for.
LEMMA SameAligned ==
  ASSUME NEW cl, NEW nx, NEW from, NEW sent, NEW ex,
         Aligned(cl, from, sent, ex), Keeps(cl, nx),
         nx.callbacks = cl.callbacks
  PROVE  Aligned(nx, from, sent, ex)
<1>1. ASSUME NEW i \in 1..Len(cl.callbacks)
      PROVE  CallbackFits(nx, from, sent, ex, i)
  <2>1. CallbackFits(cl, from, sent, ex, i)
    BY DEF Aligned
  <2>2. QED
    BY <2>1 DEF CallbackFits, Keeps
<1>2. QED
  BY <1>1 DEF Aligned

\* runCommand puts commands behind those of the client.
LEMMA HandedOutInv ==
  ASSUME NEW c \in Clients, NEW cl, NEW from, NEW to, NEW sl,
         NEW ex \in Seq(UserCmds), ClientInv(c, cl, from, to, sl, ex),
         NEW mine \in Seq(UserCmds), Ascending(mine), NEW bound \in Nat,
         c = Boot \/ ~cl.made => mine = <<>>,
         \A m \in ToSet(mine) : sl[m.slot] = c /\ m.id > bound,
         \A m \in ToSet(ex) \cup ToSet(cl.cache) : m \in UserCmds => m.id <= bound
  PROVE  ClientInv(c, [cl EXCEPT !.cache = @ \o mine], from, to, sl, ex)
<1> DEFINE nx == [cl EXCEPT !.cache = @ \o mine]
           q == cl.cache \o mine
<1>1. Context(cl, from, to, ex)
  BY DEF ClientInv
<1>2. /\ cl \in ClientStates /\ cl.cache \in Seq(Cmds)
      /\ Aligned(cl, from, to \o cl.obuf, ex)
  BY <1>1, ClientTypes
<1>3. UserCmds \subseteq Cmds /\ \A m \in UserCmds : m.id \in Nat
  BY DEF UserCmds, Cmds
<1>4. mine \in Seq(Cmds)
  BY <1>3, SeqMonotonic
<1>5. /\ q \in Seq(Cmds)
      /\ mine = <<>> => q = cl.cache
      /\ cl.cache # <<>> => q # <<>> /\ Head(q) = Head(cl.cache)
  <2>1. q \in Seq(Cmds)
    BY <1>2, <1>4, ConcatFacts
  <2>2. LoadLua \in Requests /\ cl.cache \o <<>> = cl.cache
    BY <1>2, ConcatEmptySeq DEF Requests
  <2>3. ASSUME cl.cache # <<>> PROVE q # <<>> /\ Head(q) = Head(cl.cache)
    BY <1>2, <1>4, <2>3, HeadOfTwo
  <2>4. QED
    BY <2>1, <2>2, <2>3
<1>6. /\ nx \in ClientStates /\ nx.cache = q /\ nx.conn = cl.conn
      /\ nx.callbacks = cl.callbacks /\ nx.obuf = cl.obuf /\ nx.made = cl.made
      /\ nx.newAddr = cl.newAddr /\ nx.doing = cl.doing
      /\ mine = <<>> => nx = cl
  <2>1. nx = [cl EXCEPT !.cache = q]
    OBVIOUS
  <2> HIDE DEF q, nx
  <2>2. /\ nx \in ClientStates /\ nx.cache = q /\ nx.conn = cl.conn
        /\ nx.callbacks = cl.callbacks /\ nx.obuf = cl.obuf /\ nx.made = cl.made
        /\ nx.newAddr = cl.newAddr /\ nx.doing = cl.doing
    BY <1>2, <1>5, <2>1 DEF ClientStates
  <2>3. [cl EXCEPT !.cache = cl.cache] = cl
    BY <1>2 DEF ClientStates
  <2>4. QED
    BY <1>5, <2>1, <2>2, <2>3
<1>7. CASE mine = <<>>
  BY <1>6, <1>7
<1>8. CASE mine # <<>>
  <2>1. c # Boot /\ cl.made /\ cl.cache \in Seq(UserCmds)
    BY <1>8 DEF ClientInv, Holds
  <2>2. /\ q \in Seq(UserCmds) /\ Len(cl.cache) \in Nat /\ Len(mine) \in Nat
        /\ Len(q) = Len(cl.cache) + Len(mine)
        /\ \A i \in 1..Len(cl.cache) : /\ q[i] = cl.cache[i]
                                       /\ cl.cache[i] \in UserCmds
                                       /\ cl.cache[i] \in ToSet(cl.cache)
        /\ \A i \in 1..Len(mine) : /\ q[Len(cl.cache) + i] = mine[i]
                                   /\ mine[i] \in UserCmds /\ mine[i] \in ToSet(mine)
    <3>1. DOMAIN cl.cache = 1..Len(cl.cache) /\ DOMAIN mine = 1..Len(mine)
      BY <2>1, LenProperties
    <3>2. /\ \A i \in 1..Len(cl.cache) : /\ cl.cache[i] \in UserCmds
                                          /\ cl.cache[i] \in ToSet(cl.cache)
          /\ \A i \in 1..Len(mine) : mine[i] \in UserCmds /\ mine[i] \in ToSet(mine)
      <4>1. ASSUME NEW r \in Seq(UserCmds), DOMAIN r = 1..Len(r), NEW i \in 1..Len(r)
            PROVE  r[i] \in UserCmds /\ r[i] \in ToSet(r)
        BY <4>1 DEF ToSet
      <4> HIDE DEF q, nx
      <4>2. QED
        BY <2>1, <3>1, <4>1
    <3> HIDE DEF q
    <3>3. /\ q \in Seq(UserCmds) /\ Len(cl.cache) \in Nat /\ Len(mine) \in Nat
          /\ Len(q) = Len(cl.cache) + Len(mine)
          /\ \A i \in 1..Len(cl.cache) : q[i] = cl.cache[i]
          /\ \A i \in 1..Len(mine) : q[Len(cl.cache) + i] = mine[i]
      BY <2>1, ConcatFacts, SMTT(20) DEF q
    <3>4. QED
      BY <3>2, <3>3
  <2> HIDE DEF q, nx
  <2>3. \A i \in 1..Len(q) :
          \/ i \in 1..Len(cl.cache) /\ q[i] = cl.cache[i] /\ q[i].id <= bound
          \/ /\ i > Len(cl.cache) /\ i - Len(cl.cache) \in 1..Len(mine)
             /\ q[i] = mine[i - Len(cl.cache)] /\ q[i].id > bound /\ sl[q[i].slot] = c
    <3>1. SUFFICES ASSUME NEW i \in 1..Len(q)
                   PROVE  \/ i \in 1..Len(cl.cache) /\ q[i] = cl.cache[i]
                             /\ q[i].id <= bound
                          \/ /\ i > Len(cl.cache) /\ i - Len(cl.cache) \in 1..Len(mine)
                             /\ q[i] = mine[i - Len(cl.cache)] /\ q[i].id > bound
                             /\ sl[q[i].slot] = c
      OBVIOUS
    <3>2. CASE i \in 1..Len(cl.cache)
      BY <2>2, <3>2
    <3>3. CASE i > Len(cl.cache)
      <4>1. i - Len(cl.cache) \in 1..Len(mine) /\ Len(cl.cache) + (i - Len(cl.cache)) = i
        BY <2>2, <3>3
      <4>2. QED
        BY <2>2, <3>3, <4>1
    <3>4. QED
      BY <2>2, <3>2, <3>3
  <2>4. \A i \in 1..Len(q) : q[i].id \in Nat
    BY <1>3, <2>2
  <2>5. Context(nx, from, to, ex)
    <3>1. Keeps(cl, nx)
      BY <1>5, <1>6 DEF Keeps
    <3>2. Aligned(nx, from, to \o nx.obuf, ex)
      BY <1>2, <1>6, <3>1, SameAligned
    <3>3. QED
      BY <1>1, <1>6, <2>1, <3>2 DEF Context
  <2>6. Holds(c, nx, sl)
    <3>1. ASSUME NEW i \in 1..Len(q) PROVE sl[q[i].slot] = c
      <4>1. CASE i \in 1..Len(cl.cache)
        BY <2>1, <2>2, <4>1 DEF ClientInv, Holds
      <4>2. CASE i > Len(cl.cache)
        BY <2>2, <2>3, <4>2
      <4>3. QED
        BY <2>2, <4>1, <4>2
    <3>2. QED
      BY <1>6, <2>1, <2>2, <3>1 DEF Holds
  <2>7. Ascending(q)
    <3>1. Ascending(cl.cache)
      BY <2>1 DEF ClientInv, Behind
    <3>2. SUFFICES ASSUME NEW i \in 1..Len(q), NEW j \in 1..Len(q), i < j
                   PROVE  q[i].id < q[j].id
      BY DEF Ascending
    <3>3. CASE i \in 1..Len(cl.cache) /\ j \in 1..Len(cl.cache)
      BY <2>2, <3>1, <3>2, <3>3 DEF Ascending
    <3>4. CASE i \in 1..Len(cl.cache) /\ j > Len(cl.cache)
      <4>1. q[i].id <= bound /\ q[j].id > bound
        BY <2>2, <2>3, <3>4
      <4>2. QED
        BY <2>4, <4>1
    <3>5. CASE i > Len(cl.cache)
      <4>1. /\ i - Len(cl.cache) \in 1..Len(mine) /\ j - Len(cl.cache) \in 1..Len(mine)
            /\ i - Len(cl.cache) < j - Len(cl.cache)
            /\ q[i] = mine[i - Len(cl.cache)] /\ q[j] = mine[j - Len(cl.cache)]
        BY <2>2, <2>3, <3>2, <3>5
      <4>2. QED
        BY <4>1 DEF Ascending
    <3>6. QED
      BY <2>2, <3>2, <3>3, <3>4, <3>5
  <2>8. Behind(c, nx, from, sl, ex)
    <3>1. Answered(cl, from) => Answered(nx, from)
      BY <1>6 DEF Answered
    <3>2. SUFFICES ASSUME NEW k \in 1..Len(ex), NEW i \in 1..Len(q), sl[ex[k].slot] = c
                   PROVE  \/ ex[k].id < q[i].id
                          \/ i = 1 /\ Answered(nx, from) /\ ex[k] = q[1]
      BY <1>6, <2>7 DEF Behind
    <3>3. ex[k].id \in Nat /\ ex[k].id <= bound
      <4>1. ex[k] \in UserCmds /\ ex[k] \in ToSet(ex)
        BY LenProperties DEF ToSet
      <4>2. QED
        BY <1>3, <4>1
    <3>4. CASE i \in 1..Len(cl.cache)
      <4>1. /\ q[i] = cl.cache[i]
            /\ \/ ex[k].id < cl.cache[i].id
               \/ i = 1 /\ Answered(cl, from) /\ ex[k] = cl.cache[1]
        BY <2>1, <2>2, <3>2, <3>4 DEF ClientInv, Behind
      <4>2. QED
        BY <3>1, <4>1
    <3>5. CASE i > Len(cl.cache)
      <4>1. q[i].id > bound
        BY <2>2, <2>3, <3>5
      <4>2. QED
        BY <2>4, <3>3, <4>1
    <3>6. QED
      BY <2>2, <3>4, <3>5
  <2>9. QED
    BY <2>5, <2>6, <2>8 DEF ClientInv, nx
<1>9. QED
  BY <1>7, <1>8

\* startDoMsg.
LEMMA StartDoMsgInv ==
  ASSUME NEW c \in Clients, NEW cl, NEW from, NEW to, NEW sl, NEW ex,
         ClientInv(c, cl, from, to, sl, ex), CanStart(cl) => cl.conn # "none"
  PROVE  /\ ClientInv(c, StartDoMsg(cl), from, to, sl, ex)
         /\ StartDoMsg(cl).cache = cl.cache /\ StartDoMsg(cl).conn = cl.conn
<1> DEFINE nx == StartDoMsg(cl)
           sent == to \o cl.obuf
           m == Head(cl.cache)
<1>1. Context(cl, from, to, ex)
  BY DEF ClientInv
<1>2. /\ cl \in ClientStates /\ from \in Seq(Replies) /\ to \in Seq(Requests)
      /\ cl.made \in BOOLEAN /\ cl.doing \in BOOLEAN
      /\ cl.cache \in Seq(Cmds) /\ cl.callbacks \in Seq({"msg", "lua"})
      /\ cl.obuf \in Seq(Requests) /\ sent \in Seq(Requests)
      /\ cl.conn \in {"none", "dead", "connecting", "up", "closing", "freed"}
      /\ Aligned(cl, from, sent, ex)
      /\ Len(from) \in Nat /\ Len(cl.callbacks) \in Nat
      /\ \A i \in 1..Len(from) : i \in 1..Len(cl.callbacks)
  BY <1>1, ClientTypes
<1>3. CASE ~CanStart(cl)
  BY <1>3 DEF StartDoMsg
<1>4. CASE CanStart(cl)
  <2>1. cl.cache # <<>> /\ ~cl.doing /\ cl.conn # "none"
    BY <1>4 DEF CanStart
  <2>2. NoMsg(cl.callbacks)
    BY <1>1, <2>1, NotDoing
  <2>3. Keeps(cl, nx)
    BY <2>1 DEF Keeps
  <2>4. cl.made
    BY <1>1, <2>1 DEF Context, NoClient
  <2>5. CASE cl.conn \in {"closing", "freed"}
    <3>1. nx = [cl EXCEPT !.doing = TRUE]
      BY <1>4, <2>5 DEF StartDoMsg
    <3>2. /\ nx \in ClientStates /\ nx.cache = cl.cache /\ nx.conn = cl.conn
          /\ nx.callbacks = cl.callbacks /\ nx.obuf = cl.obuf /\ nx.made = cl.made
          /\ nx.newAddr = cl.newAddr /\ nx.doing = TRUE
      BY <1>2, <3>1 DEF ClientStates
    <3> HIDE DEF nx
    <3>3. Aligned(nx, from, to \o nx.obuf, ex)
      BY <1>2, <2>3, <3>2, SameAligned
    <3>4. Context(nx, from, to, ex)
      BY <1>1, <2>1, <2>4, <3>2, <3>3 DEF Context
    <3>5. Holds(c, nx, sl) /\ Behind(c, nx, from, sl, ex)
      BY <3>2 DEF ClientInv, Holds, Behind, Answered
    <3>6. QED
      BY <3>2, <3>4, <3>5 DEF ClientInv, nx
  <2>6. CASE cl.conn \notin {"closing", "freed"}
    <3>1. nx = [cl EXCEPT !.doing = TRUE, !.callbacks = Append(cl.callbacks, "msg"),
                          !.obuf = Append(cl.obuf, m)]
      BY <1>2, <1>4, <2>6 DEF StartDoMsg, ClientStates
    <3>2. m \in Cmds /\ m \in Requests
      BY <1>2, <2>1 DEF Requests
    <3>3. /\ Append(cl.callbacks, "msg") \in Seq({"msg", "lua"})
          /\ Append(cl.obuf, m) \in Seq(Requests)
          /\ to \o Append(cl.obuf, m) = Append(sent, m)
      BY <1>2, <3>2, AppendFacts, AppendBehind
    <3>4. /\ nx \in ClientStates /\ nx.cache = cl.cache /\ nx.conn = cl.conn
          /\ nx.callbacks = Append(cl.callbacks, "msg")
          /\ nx.obuf = Append(cl.obuf, m) /\ nx.made = cl.made
          /\ nx.newAddr = cl.newAddr /\ nx.doing = TRUE
      BY <1>2, <3>1, <3>3 DEF ClientStates
    <3> HIDE DEF nx
    <3>5. Aligned(nx, from, to \o nx.obuf, ex)
      BY <1>2, <2>1, <2>2, <2>3, <3>2, <3>3, <3>4, RequestAligned
    <3>6. Context(nx, from, to, ex)
      BY <1>1, <2>1, <2>4, <2>6, <3>4, <3>5 DEF Context
    <3>7. Answered(cl, from) => Answered(nx, from)
      <4>1. \A i \in 1..Len(cl.callbacks) : nx.callbacks[i] = cl.callbacks[i]
        BY <1>2, <3>4, AppendFacts
      <4>2. QED
        BY <1>2, <4>1 DEF Answered
    <3>8. Holds(c, nx, sl) /\ Behind(c, nx, from, sl, ex)
      BY <3>4, <3>7 DEF ClientInv, Holds, Behind
    <3>9. QED
      BY <3>4, <3>6, <3>8 DEF ClientInv, nx
  <2>7. QED
    BY <2>5, <2>6
<1>5. QED
  BY <1>3, <1>4

\* disconnectCallback.
LEMMA DisconnectInv ==
  ASSUME ConstantsAssumption, NEW c \in Clients, NEW cl, NEW from, NEW to, NEW sl,
         NEW ex, ClientInv(c, cl, from, to, sl, ex), cl.conn \in {"up", "closing"},
         NEW conn \in {"dead", "connecting"}
  PROVE  LET nx == DisconnectCallback(cl, conn)
         IN /\ ClientInv(c, nx, <<>>, <<>>, sl, ex) /\ nx.made
            /\ nx.cache \in {<<>>, cl.cache}
            /\ cl.conn = "closing" => nx.cache = cl.cache
            /\ c = Boot => nx.cache = <<>> /\ nx.conn # "connecting"
<1> DEFINE nx == DisconnectCallback(cl, conn)
<1>1. /\ Context(cl, from, to, ex)
      /\ cl.newAddr # NoNode <=> cl.conn = "closing"
      /\ cl.conn = "closing" => NoMsg(cl.callbacks)
  BY DEF ClientInv, Context, NoMsg
<1>2. /\ cl \in ClientStates /\ cl.cache \in Seq(Cmds) /\ cl.newAddr \in Nodes \cup {NoNode}
      /\ \A i \in 1..Len(from) : i \in 1..Len(cl.callbacks)
  BY <1>1, ClientTypes DEF ClientStates
<1>3. <<>> \in Seq(Cmds) /\ <<>> \in Seq(Requests) /\ <<>> \in Seq({"msg", "lua"})
      /\ <<>> \in Seq(Replies) /\ <<>> \in Seq(UserCmds) /\ <<>> \o <<>> = <<>>
  OBVIOUS
<1>4. /\ nx \in ClientStates /\ nx.made = TRUE /\ nx.callbacks = <<>>
      /\ nx.obuf = <<>> /\ nx.newAddr = NoNode /\ nx.doing = FALSE
      /\ IF cl.newAddr = NoNode THEN nx.conn = "none" /\ nx.cache = <<>>
         ELSE nx.conn = conn /\ nx.cache = cl.cache
  BY <1>2, <1>3 DEF DisconnectCallback, ConnectInstanc, NoClient, KeptCache, ClientStates
<1> HIDE DEF nx
<1>5. Aligned(nx, <<>>, <<>> \o nx.obuf, ex)
  BY <1>3, <1>4 DEF Aligned
<1>6. Context(nx, <<>>, <<>>, ex)
  BY <1>3, <1>4, <1>5 DEF Context
<1>7. c = Boot => nx.cache = <<>> /\ nx.conn = "none"
  BY <1>1, <1>4 DEF ClientInv, Holds
<1>8. Holds(c, nx, sl)
  <2>1. \A i \in 1..Len(<<>>) : FALSE
    OBVIOUS
  <2>2. QED
    BY <1>3, <1>4, <1>7, <2>1 DEF ClientInv, Holds
<1>9. Behind(c, nx, <<>>, sl, ex)
  <2>1. CASE nx.cache = <<>>
    BY <2>1 DEF Behind, Ascending
  <2>2. CASE cl.conn = "closing" /\ nx.cache = cl.cache
    <3>1. ~Answered(cl, from)
      BY <1>1, <1>2, <2>2 DEF Answered, NoMsg
    <3>2. QED
      BY <2>2, <3>1 DEF ClientInv, Behind
  <2>3. QED
    BY <1>1, <1>4, <2>1, <2>2
<1>10. QED
  BY <1>1, <1>4, <1>6, <1>7, <1>8, <1>9 DEF ClientInv, nx

-----------------------------------------------------------------------------
(***************************************************************************)
(* Every step keeps the invariant.                                         *)
(***************************************************************************)

\* What holds of client c now.
Mine(c) == ClientInv(c, client[c], fromNode[c], toNode[c], slots, executed)

\* The steps that hand no command to a client and type none.
LEMMA CommandsKept ==
  ASSUME Numbered, OneEach, NoneLost, errors \in Nat, errors' \in Nat,
         command' = command, typed' = typed, executed' \in Seq(UserCmds),
         errors <= errors', Handed' \subseteq Handed,
         errors' = 0 => Handed \subseteq Handed'
  PROVE  Numbered' /\ OneEach' /\ NoneLost'
<1>1. Known' \subseteq Known /\ (errors' = 0 => Known \subseteq Known')
  BY DEF Known
<1>2. Numbered'
  BY DEF Numbered
<1>3. OneEach'
  BY <1>1 DEF OneEach
<1>4. NoneLost'
  BY <1>1 DEF NoneLost
<1>5. QED
  BY <1>2, <1>3, <1>4

\* The names of the clients.
LEMMA NameFacts ==
  ASSUME ConstantsAssumption
  PROVE  /\ Boot \notin Nodes /\ NoNode \notin Nodes /\ Boot \in Clients
         /\ Nodes \subseteq Clients /\ IsFiniteSet(Clients)
         /\ \A c \in Clients : c # Boot => c \in Nodes
         /\ \A failed \in SUBSET Clients : Cardinality(failed) \in Nat
         /\ MaxErrors \in Nat
<1>1. IsFiniteSet(Clients)
  BY FS_AddElement DEF ConstantsAssumption, Clients
<1>2. \A failed \in SUBSET Clients : Cardinality(failed) \in Nat
  BY <1>1, FS_Subset, FS_CardinalityType
<1>3. QED
  BY <1>1, <1>2 DEF ConstantsAssumption, Clients

\* A step of one client that executes no command.
LEMMA OneClient ==
  ASSUME ConstantsAssumption, IInv, NEW c \in Clients,
         NEW nx, NEW from, NEW to, NEW e \in Nat, e <= MaxErrors, errors <= e,
         ClientInv(c, nx, from, to, slots, executed),
         client' = [client EXCEPT ![c] = nx],
         fromNode' = [fromNode EXCEPT ![c] = from],
         toNode' = [toNode EXCEPT ![c] = to],
         errors' = e, UNCHANGED <<process, command, slots, clusterVars, typed>>,
         c = Boot /\ client[c].conn # "connecting"
           => /\ nx.conn # "connecting"
              /\ client[c].cache = <<>> => nx.cache = <<>>,
         ToSet(nx.cache) \cap UserCmds \subseteq ToSet(client[c].cache),
         e = 0 => \A m \in ToSet(client[c].cache) \cap UserCmds :
                    m \in ToSet(nx.cache) \cup ToSet(executed)
  PROVE  IInv'
<1>1. Types /\ \A d \in Clients : Mine(d)
  BY DEF IInv, Mine
<1>2. nx \in ClientStates /\ from \in Seq(Replies) /\ to \in Seq(Requests)
  BY DEF ClientInv, Context
<1>3. /\ client' \in [Clients -> ClientStates]
      /\ client'[c] = nx /\ fromNode'[c] = from /\ toNode'[c] = to
      /\ \A d \in Clients \ {c} : /\ client'[d] = client[d] /\ toNode'[d] = toNode[d]
                                  /\ fromNode'[d] = fromNode[d]
      /\ fromNode' \in [Clients -> Seq(Replies)]
      /\ toNode' \in [Clients -> Seq(Requests)]
  BY <1>1, <1>2 DEF Types
<1>4. Types'
  BY <1>1, <1>3 DEF Types, clusterVars
<1>5. ASSUME NEW d \in Clients
      PROVE  ClientInv(d, client[d], fromNode[d], toNode[d], slots, executed)'
  <2>1. slots' = slots /\ executed' = executed
    BY DEF clusterVars
  <2>2. CASE d = c
    BY <1>3, <2>1, <2>2
  <2>3. CASE d # c
    BY <1>1, <1>3, <2>1, <2>3 DEF Mine
  <2>4. QED
    BY <2>2, <2>3
<1>6. /\ Handed' \subseteq Handed
      /\ errors' = 0 => Handed \subseteq Handed'
  <2>1. executed' = executed
    BY DEF clusterVars
  <2>2. ASSUME NEW m \in Handed' PROVE m \in Handed
    <3>1. CASE m \in ToSet(executed)
      BY <2>2, <3>1 DEF Handed
    <3>2. CASE m \notin ToSet(executed)
      <4>1. PICK d \in Nodes : m \in ToSet(client'[d].cache)
        BY <2>1, <2>2, <3>2 DEF Handed
      <4>2. d \in Clients /\ m \in UserCmds /\ m \in ToSet(client[d].cache)
        BY <1>3, <2>2, <4>1, NameFacts DEF Handed
      <4>3. QED
        BY <4>1, <4>2 DEF Handed
    <3>3. QED
      BY <3>1, <3>2
  <2>3. ASSUME errors' = 0, NEW m \in Handed PROVE m \in Handed'
    <3>1. CASE m \in ToSet(executed)
      BY <2>1, <2>3, <3>1 DEF Handed
    <3>2. CASE m \notin ToSet(executed)
      <4>1. PICK d \in Nodes : m \in ToSet(client[d].cache)
        BY <2>3, <3>2 DEF Handed
      <4>2. d \in Clients /\ m \in UserCmds /\ m \in ToSet(client'[d].cache)
        BY <1>3, <2>3, <3>2, <4>1, NameFacts DEF Handed
      <4>3. QED
        BY <4>1, <4>2 DEF Handed
    <3>3. QED
      BY <3>1, <3>2
  <2>4. QED
    BY <2>2, <2>3
<1>7. Numbered' /\ OneEach' /\ NoneLost'
  <2>1. errors \in Nat /\ executed' \in Seq(UserCmds)
    BY <1>1 DEF Types, IInv, Numbered, clusterVars
  <2>2. QED
    BY <1>6, <2>1, CommandsKept DEF IInv
<1>8. InTurn'
  BY DEF IInv, InTurn, clusterVars
<1>9. LoadedOnce'
  BY <1>3, NameFacts DEF IInv, LoadedOnce
<1>10. QED
  BY <1>4, <1>5, <1>7, <1>8, <1>9 DEF IInv

\* A command is typed: it gets the next id.
LEMMA AddCommandInv ==
  ASSUME ConstantsAssumption, IInv, NEW s \in Slots, AddCommand(s)
  PROVE  IInv'
<1> DEFINE new == Command(typed + 1, s)
<1>1. /\ typed \in 0..MaxCommands /\ typed < MaxCommands /\ typed \in Nat
      /\ MaxCommands \in Nat
  BY DEF AddCommand, IInv, Types, ConstantsAssumption
<1>2. new \in UserCmds /\ new.id = typed + 1
  BY <1>1 DEF Command, UserCmds
<1>3. Types'
  BY <1>1 DEF AddCommand, IInv, Types, clusterVars
<1>4. \A c \in Clients :
        ClientInv(c, client[c], fromNode[c], toNode[c], slots, executed)'
  BY DEF AddCommand, IInv, clusterVars
<1>5. Handed' = Handed
  BY DEF AddCommand, Handed, clusterVars
<1>6. /\ command' \in Seq(UserCmds) /\ Len(command) \in Nat
      /\ Len(command') = Len(command) + 1
      /\ \A i \in 1..Len(command) : command'[i] = command[i]
      /\ command'[Len(command) + 1] = new
      /\ ToSet(command') = ToSet(command) \cup {new}
  <2>1. command \in Seq(UserCmds) /\ command' = Append(command, new)
    BY DEF IInv, Numbered, AddCommand
  <2> HIDE DEF new
  <2>2. QED
    BY <1>2, <2>1, AppendFacts
<1> HIDE DEF new
<1>7. typed' = typed + 1 /\ executed' = executed /\ errors' = errors
  BY DEF AddCommand, clusterVars
<1>8. Numbered'
  <2>1. \A i \in 1..Len(command) + 1 : command'[i].id = typed - Len(command) + i
    <3>1. SUFFICES ASSUME NEW i \in 1..Len(command) + 1
                   PROVE  command'[i].id = typed - Len(command) + i
      OBVIOUS
    <3>2. CASE i \in 1..Len(command)
      BY <1>6, <3>2 DEF IInv, Numbered
    <3>3. CASE i = Len(command) + 1
      BY <1>1, <1>2, <1>6, <3>3
    <3>4. QED
      BY <1>6, <3>2, <3>3
  <2>2. typed' - Len(command') = typed - Len(command)
    BY <1>1, <1>6, <1>7
  <2>3. Len(command') <= typed'
    BY <1>1, <1>6, <1>7 DEF IInv, Numbered
  <2>4. QED
    BY <1>5, <1>6, <1>7, <2>1, <2>2, <2>3 DEF IInv, Numbered
<1>9. \A m \in Known : m.id \in Nat /\ m.id <= typed
  <2>1. SUFFICES ASSUME NEW m \in Known PROVE m.id \in Nat /\ m.id <= typed
    OBVIOUS
  <2>2. m.id \in Nat
    BY <2>1 DEF Known, UserCmds
  <2>3. CASE m \in Handed
    BY <1>1, <1>6, <2>2, <2>3 DEF IInv, Numbered
  <2>4. CASE m \in ToSet(command)
    <3>1. PICK i \in 1..Len(command) : m = command[i]
      BY <2>4, LenProperties DEF IInv, Numbered, ToSet
    <3>2. m.id = typed - Len(command) + i
      BY <3>1 DEF IInv, Numbered
    <3>3. QED
      BY <1>1, <1>6, <2>2, <3>1, <3>2
  <2>5. QED
    BY <2>1, <2>3, <2>4 DEF Known
<1>10. Known' = Known \cup {new}
  BY <1>2, <1>5, <1>6 DEF Known
<1>11. OneEach'
  <2>1. SUFFICES ASSUME NEW x \in Known \cup {new}, NEW y \in Known \cup {new},
                        x.id = y.id
                 PROVE  x = y
    BY <1>10 DEF OneEach
  <2>2. \A m \in Known : m.id # new.id
    BY <1>1, <1>2, <1>9
  <2>3. QED
    BY <2>1, <2>2 DEF IInv, OneEach
<1>12. NoneLost'
  <2>1. \A n \in 1..typed + 1 : n \in 1..typed \/ n = new.id
    BY <1>1, <1>2
  <2>2. QED
    BY <1>7, <1>10, <2>1 DEF IInv, NoneLost
<1>13. InTurn' /\ LoadedOnce'
  BY DEF IInv, InTurn, LoadedOnce, AddCommand, clusterVars
<1>14. QED
  BY <1>3, <1>4, <1>8, <1>11, <1>12, <1>13 DEF IInv

\* The first write event of a connection.
LEMMA ConnectedInv ==
  ASSUME ConstantsAssumption, IInv, NEW c \in Clients, Connected(c)
  PROVE  IInv'
<1> DEFINE old == client[c]
           asked == AskSlots(c, old)
           sends == SendLua(asked)
           nx == [sends EXCEPT !.conn = "up", !.obuf = <<>>]
           to == toNode[c] \o sends.obuf
           sent == toNode[c] \o old.obuf
<1>1. /\ Mine(c) /\ Context(old, fromNode[c], toNode[c], executed)
      /\ old.conn = "connecting"
      /\ fromNode[c] = <<>> /\ toNode[c] = <<>> /\ old.newAddr = NoNode
  BY DEF IInv, Mine, ClientInv, Context, Connected
<1>2. /\ old \in ClientStates /\ old.cache \in Seq(Cmds)
      /\ old.callbacks \in Seq({"msg", "lua"}) /\ old.obuf \in Seq(Requests)
      /\ fromNode[c] \in Seq(Replies) /\ toNode[c] \in Seq(Requests)
      /\ sent \in Seq(Requests) /\ Aligned(old, fromNode[c], sent, executed)
      /\ old.made \in BOOLEAN
  BY <1>1, ClientTypes
<1>3. old.made
  BY <1>1, <1>2 DEF Context, NoClient
<1>4. /\ asked \in ClientStates /\ asked.callbacks = old.callbacks
      /\ asked.obuf = old.obuf /\ asked.made = old.made /\ asked.doing = old.doing
      /\ asked.newAddr = NoNode /\ asked.conn = "connecting"
      /\ asked.cache = IF c = Boot THEN <<ClusterSlots>> ELSE old.cache
      /\ c = Boot => old.cache = <<>>
  <2>1. c = Boot => old.cache = <<>>
    BY <1>1 DEF Mine, ClientInv, Holds
  <2>2. ClusterSlots \in Cmds
    BY DEF Cmds
  <2>3. c = Boot => Append(old.cache, ClusterSlots) = <<ClusterSlots>>
    <3>1. Append(<<>>, ClusterSlots) = <<ClusterSlots>>
      OBVIOUS
    <3> HIDE DEF old
    <3>2. QED
      BY <2>1, <3>1
  <2>4. <<ClusterSlots>> \in Seq(Cmds)
    BY <2>2
  <2>5. CASE c = Boot
    <3>1. asked = [old EXCEPT !.cache = <<ClusterSlots>>]
      BY <2>3, <2>5 DEF AskSlots
    <3>2. QED
      BY <1>1, <1>2, <2>1, <2>4, <2>5, <3>1 DEF ClientStates
  <2>6. CASE c # Boot
    BY <1>1, <1>2, <2>6 DEF AskSlots
  <2>7. QED
    BY <2>5, <2>6
<1>5. /\ sends \in ClientStates /\ sends.cache = asked.cache /\ sends.made
      /\ sends.doing = old.doing /\ sends.newAddr = NoNode
      /\ to \in Seq(Requests) /\ Aligned(sends, fromNode[c], to, executed)
  <2>1. Keeps(old, asked)
    BY <1>4 DEF Keeps
  <2>2. Aligned(asked, fromNode[c], sent, executed)
    BY <1>2, <1>4, <2>1, SameAligned
  <2>3. CASE ~LuaFile
    <3>1. sends = asked
      BY <2>3 DEF SendLua
    <3>2. QED
      BY <1>2, <1>3, <1>4, <2>2, <3>1
  <2>4. CASE LuaFile
    <3>1. sends = [asked EXCEPT !.callbacks = Append(asked.callbacks, "lua"),
                                !.obuf = Append(asked.obuf, LoadLua)]
      BY <1>4, <2>4 DEF SendLua, ClientStates
    <3> HIDE DEF asked, old
    <3>2. LoadLua \in Requests
      BY DEF Requests
    <3>3. /\ Append(asked.callbacks, "lua") \in Seq({"msg", "lua"})
          /\ Append(asked.obuf, LoadLua) \in Seq(Requests)
          /\ toNode[c] \o Append(asked.obuf, LoadLua) = Append(sent, LoadLua)
      <4>1. /\ asked.callbacks \in Seq({"msg", "lua"})
            /\ asked.obuf \in Seq(Requests) /\ toNode[c] \in Seq(Requests)
            /\ sent = toNode[c] \o asked.obuf
        BY <1>2, <1>4
      <4>2. toNode[c] \o Append(asked.obuf, LoadLua) = Append(sent, LoadLua)
        <5>1. \A t, o \in Seq(Requests) :
                t \o Append(o, LoadLua) = Append(t \o o, LoadLua)
          BY <3>2, AppendBehind
        <5> HIDE DEF sends, sent
        <5>2. QED
          BY <4>1, <5>1
      <4>3. QED
        BY <3>2, <4>1, <4>2, AppendFacts
    <3>4. /\ sends \in ClientStates /\ sends.cache = asked.cache
          /\ sends.made = asked.made /\ sends.doing = asked.doing
          /\ sends.newAddr = asked.newAddr
          /\ sends.callbacks = Append(asked.callbacks, "lua")
          /\ sends.obuf = Append(asked.obuf, LoadLua)
      BY <1>4, <3>1, <3>3 DEF ClientStates
    <3> HIDE DEF sends, sent
    <3>5. Keeps(asked, sends)
      BY <3>4 DEF Keeps
    <3>6. Aligned(sends, fromNode[c], Append(sent, LoadLua), executed)
      BY <1>2, <1>4, <2>2, <3>2, <3>4, <3>5, RequestAligned
    <3>7. to = Append(sent, LoadLua) /\ to \in Seq(Requests)
      <4>1. sent \in Seq(Requests)
        BY <1>2
      <4>2. to = Append(sent, LoadLua)
        BY <3>3, <3>4
      <4>3. QED
        BY <3>2, <4>1, <4>2, AppendFacts
    <3>8. QED
      BY <1>3, <1>4, <3>4, <3>6, <3>7
  <2>5. QED
    BY <2>3, <2>4 DEF ConstantsAssumption
<1> HIDE DEF asked, sends, to, sent
<1>6. /\ nx \in ClientStates /\ nx.cache = asked.cache /\ nx.made /\ nx.conn = "up"
      /\ nx.newAddr = NoNode /\ nx.callbacks = sends.callbacks
      /\ nx.obuf = <<>> /\ nx.doing = sends.doing
  <2>1. <<>> \in Seq(Requests)
    OBVIOUS
  <2>2. QED
    BY <1>5, <2>1 DEF ClientStates
<1> HIDE DEF nx
<1>7. Context(nx, fromNode[c], to, executed)
  <2>1. to \o nx.obuf = to
    BY <1>5, <1>6, ConcatEmptySeq
  <2>2. Keeps(sends, nx)
    BY <1>5, <1>6 DEF Keeps
  <2>3. Aligned(nx, fromNode[c], to \o nx.obuf, executed)
    BY <1>5, <1>6, <2>1, <2>2, SameAligned
  <2>4. QED
    BY <1>2, <1>5, <1>6, <2>3 DEF Context
<1>8. Holds(c, nx, slots)
  BY <1>1, <1>4, <1>6 DEF Mine, ClientInv, Holds
<1>9. Behind(c, nx, fromNode[c], slots, executed)
  <2>1. ~Answered(old, fromNode[c])
    BY <1>1 DEF Answered
  <2>2. QED
    BY <1>1, <1>4, <1>6, <2>1 DEF Mine, ClientInv, Behind
<1>10. /\ errors \in Nat /\ errors <= MaxErrors /\ errors' = errors
       /\ fromNode' = [fromNode EXCEPT ![c] = fromNode[c]]
       /\ client' = [client EXCEPT ![c] = nx] /\ toNode' = [toNode EXCEPT ![c] = to]
       /\ UNCHANGED <<process, command, slots, clusterVars, typed>>
  <2>1. fromNode' = [fromNode EXCEPT ![c] = fromNode[c]]
    BY DEF Connected, IInv, Types
  <2>2. client' = [client EXCEPT ![c] = nx] /\ toNode' = [toNode EXCEPT ![c] = to]
    BY DEF Connected, nx, to, sends, asked
  <2>3. errors \in Nat /\ errors <= MaxErrors /\ MaxErrors \in Nat
    BY DEF IInv, Types, ConstantsAssumption
  <2>4. QED
    BY <2>1, <2>2, <2>3 DEF Connected
<1>11. /\ ToSet(nx.cache) \cap UserCmds \subseteq ToSet(client[c].cache)
       /\ ToSet(client[c].cache) \subseteq ToSet(nx.cache)
  <2>1. CASE c # Boot
    BY <1>4, <1>6, <2>1
  <2>2. CASE c = Boot
    <3>1. ToSet(nx.cache) = {ClusterSlots} /\ ToSet(client[c].cache) = {}
      BY <1>4, <1>6, <2>2 DEF ToSet
    <3>2. ClusterSlots \notin UserCmds
      BY DEF ClusterSlots, UserCmds
    <3>3. QED
      BY <3>1, <3>2
  <2>3. QED
    BY <2>1, <2>2
<1>12. ClientInv(c, nx, fromNode[c], to, slots, executed)
  BY <1>7, <1>8, <1>9 DEF ClientInv
<1>13. c = Boot /\ client[c].conn # "connecting" => FALSE
  BY <1>1
<1>14. errors <= errors
  BY <1>10
<1>15. QED
  BY <1>10, <1>11, <1>12, <1>13, <1>14, OneClient

\* The connection could not be made.
LEMMA ConnectFailsInv ==
  ASSUME ConstantsAssumption, IInv, NEW c \in Clients, ConnectFails(c)
  PROVE  IInv'
<1> DEFINE old == client[c]
           asked == AskSlots(c, old)
           nx == [asked EXCEPT !.conn = "freed", !.callbacks = <<>>, !.obuf = <<>>]
<1>1. /\ Mine(c) /\ Context(old, fromNode[c], toNode[c], executed)
      /\ old.conn = "connecting"
      /\ fromNode[c] = <<>> /\ toNode[c] = <<>> /\ old.newAddr = NoNode
  BY DEF IInv, Mine, ClientInv, Context, ConnectFails
<1>2. old \in ClientStates /\ old.cache \in Seq(Cmds) /\ old.made \in BOOLEAN
  BY <1>1, ClientTypes
<1>3. old.made
  BY <1>1, <1>2 DEF Context, NoClient
<1>4. /\ nx \in ClientStates /\ nx.callbacks = <<>> /\ nx.obuf = <<>>
      /\ nx.made /\ nx.newAddr = NoNode /\ nx.conn = "freed"
      /\ nx.cache = IF c = Boot THEN <<ClusterSlots>> ELSE old.cache
      /\ c = Boot => old.cache = <<>>
  <2>1. c = Boot => old.cache = <<>>
    BY <1>1 DEF Mine, ClientInv, Holds
  <2>2. ClusterSlots \in Cmds
    BY DEF Cmds
  <2>3. c = Boot => Append(old.cache, ClusterSlots) = <<ClusterSlots>>
    <3>1. Append(<<>>, ClusterSlots) = <<ClusterSlots>>
      OBVIOUS
    <3> HIDE DEF old
    <3>2. QED
      BY <2>1, <3>1
  <2>4. /\ <<ClusterSlots>> \in Seq(Cmds) /\ <<>> \in Seq(Requests)
        /\ <<>> \in Seq({"msg", "lua"})
    BY <2>2
  <2>5. CASE c = Boot
    <3>1. asked = [old EXCEPT !.cache = <<ClusterSlots>>]
      BY <2>3, <2>5 DEF AskSlots
    <3>2. QED
      BY <1>1, <1>2, <1>3, <2>1, <2>4, <2>5, <3>1 DEF ClientStates
  <2>6. CASE c # Boot
    <3>1. asked = old
      BY <2>6 DEF AskSlots
    <3>2. QED
      BY <1>1, <1>2, <1>3, <2>4, <2>6, <3>1 DEF ClientStates
  <2>7. QED
    BY <2>5, <2>6
<1> HIDE DEF nx
<1>5. Context(nx, <<>>, <<>>, executed)
  <2>1. <<>> \in Seq(Requests) /\ <<>> \in Seq(Replies) /\ <<>> \o <<>> = <<>>
    OBVIOUS
  <2>2. Aligned(nx, <<>>, <<>> \o nx.obuf, executed)
    BY <1>4, <2>1 DEF Aligned
  <2>3. QED
    BY <1>4, <2>1, <2>2 DEF Context
<1>6. Holds(c, nx, slots)
  BY <1>1, <1>4 DEF Mine, ClientInv, Holds
<1>7. Behind(c, nx, <<>>, slots, executed)
  <2>1. ~Answered(old, fromNode[c])
    BY <1>1 DEF Answered
  <2>2. QED
    BY <1>1, <1>4, <2>1 DEF Mine, ClientInv, Behind
<1>8. ClientInv(c, nx, <<>>, <<>>, slots, executed)
  BY <1>5, <1>6, <1>7 DEF ClientInv
<1>9. /\ errors \in Nat /\ errors + 1 <= MaxErrors /\ errors' = errors + 1
      /\ fromNode' = [fromNode EXCEPT ![c] = <<>>]
      /\ toNode' = [toNode EXCEPT ![c] = <<>>]
      /\ client' = [client EXCEPT ![c] = nx]
      /\ UNCHANGED <<process, command, slots, clusterVars, typed>>
  <2>1. /\ fromNode' = [fromNode EXCEPT ![c] = <<>>]
        /\ toNode' = [toNode EXCEPT ![c] = <<>>]
    BY <1>1 DEF ConnectFails, IInv, Types
  <2>2. client' = [client EXCEPT ![c] = nx]
    BY DEF ConnectFails, nx
  <2>3. errors \in Nat /\ errors <= MaxErrors /\ MaxErrors \in Nat
    BY DEF IInv, Types, ConstantsAssumption
  <2>4. errors + 1 <= MaxErrors
    BY <2>3 DEF ConnectFails
  <2>5. QED
    BY <2>1, <2>2, <2>3, <2>4 DEF ConnectFails
<1>10. ToSet(nx.cache) \cap UserCmds \subseteq ToSet(client[c].cache)
  <2>1. CASE c # Boot
    BY <1>4, <2>1
  <2>2. CASE c = Boot
    <3>1. ToSet(nx.cache) = {ClusterSlots}
      BY <1>4, <2>2 DEF ToSet
    <3>2. ClusterSlots \notin UserCmds
      BY DEF ClusterSlots, UserCmds
    <3>3. QED
      BY <3>1, <3>2
  <2>3. QED
    BY <2>1, <2>2
<1>11. c = Boot /\ client[c].conn # "connecting" => FALSE
  BY <1>1
<1>12. errors + 1 \in Nat /\ errors <= errors + 1 /\ errors + 1 # 0
  BY <1>9
<1>13. QED
  BY <1>8, <1>9, <1>10, <1>11, <1>12, OneClient

\* The output buffer is written.
LEMMA WriteInv ==
  ASSUME ConstantsAssumption, IInv, NEW c \in Clients, Write(c)
  PROVE  IInv'
<1> DEFINE old == client[c]
           nx == [old EXCEPT !.obuf = <<>>]
           to == toNode[c] \o old.obuf
<1>1. /\ Mine(c) /\ Context(old, fromNode[c], toNode[c], executed)
      /\ old.conn \in {"up", "closing"}
  BY DEF IInv, Mine, ClientInv, Write
<1>2. /\ old \in ClientStates /\ to \in Seq(Requests)
      /\ Aligned(old, fromNode[c], to, executed)
  BY <1>1, ClientTypes
<1>3. /\ nx \in ClientStates /\ nx.obuf = <<>> /\ nx.callbacks = old.callbacks
      /\ nx.made = old.made /\ nx.newAddr = old.newAddr /\ nx.conn = old.conn
      /\ nx.cache = old.cache /\ nx.doing = old.doing
  <2>1. <<>> \in Seq(Requests)
    OBVIOUS
  <2>2. QED
    BY <1>2, <2>1 DEF ClientStates
<1> HIDE DEF nx, to
<1>4. Context(nx, fromNode[c], to, executed)
  <2>1. to \o nx.obuf = to
    BY <1>2, <1>3, ConcatEmptySeq
  <2>2. Keeps(old, nx)
    BY <1>3 DEF Keeps
  <2>3. Aligned(nx, fromNode[c], to \o nx.obuf, executed)
    BY <1>2, <1>3, <2>1, <2>2, SameAligned
  <2>4. old.made
    BY <1>1 DEF Context, NoClient
  <2>5. QED
    BY <1>1, <1>2, <1>3, <2>3, <2>4 DEF Context
<1>5. Holds(c, nx, slots) /\ Behind(c, nx, fromNode[c], slots, executed)
  BY <1>1, <1>3 DEF Mine, ClientInv, Holds, Behind, Answered
<1>6. ClientInv(c, nx, fromNode[c], to, slots, executed)
  BY <1>4, <1>5 DEF ClientInv
<1>7. /\ errors \in Nat /\ errors <= MaxErrors /\ errors' = errors
      /\ fromNode' = [fromNode EXCEPT ![c] = fromNode[c]]
      /\ client' = [client EXCEPT ![c] = nx] /\ toNode' = [toNode EXCEPT ![c] = to]
      /\ UNCHANGED <<process, command, slots, clusterVars, typed>>
  <2>1. fromNode' = [fromNode EXCEPT ![c] = fromNode[c]]
    BY DEF Write, IInv, Types
  <2>2. client' = [client EXCEPT ![c] = nx] /\ toNode' = [toNode EXCEPT ![c] = to]
    BY DEF Write, IInv, Types, nx, to
  <2>3. errors \in Nat /\ errors <= MaxErrors /\ MaxErrors \in Nat
    BY DEF IInv, Types, ConstantsAssumption
  <2>4. QED
    BY <2>1, <2>2, <2>3 DEF Write
<1>8. /\ c = Boot /\ client[c].conn # "connecting" =>
           nx.conn # "connecting" /\ (client[c].cache = <<>> => nx.cache = <<>>)
      /\ ToSet(nx.cache) = ToSet(client[c].cache) /\ errors <= errors
  BY <1>3, <1>7
<1>9. QED
  BY <1>6, <1>7, <1>8, OneClient

\* The connection is lost.
LEMMA ConnectionLostInv ==
  ASSUME ConstantsAssumption, IInv, NEW c \in Clients, ConnectionLost(c)
  PROVE  IInv'
<1> DEFINE old == client[c]
<1>1. /\ Mine(c) /\ old.conn \in {"up", "closing"} /\ errors < MaxErrors
      /\ errors \in Nat
  BY DEF IInv, Types, Mine, ConnectionLost
<1>2. PICK failed \in MayFail({c}, errors + 1) :
        /\ client' = [client EXCEPT
             ![c] = DisconnectCallback(old, ConnOf(c, failed))]
        /\ errors' = errors + 1 + Cardinality(failed)
  BY DEF ConnectionLost
<1> DEFINE nx == DisconnectCallback(old, ConnOf(c, failed))
           e == errors + 1 + Cardinality(failed)
<1>3. ConnOf(c, failed) \in {"dead", "connecting"}
  BY DEF ConnOf
<1>4. /\ ClientInv(c, nx, <<>>, <<>>, slots, executed)
      /\ nx.cache \in {<<>>, old.cache}
      /\ c = Boot => nx.cache = <<>> /\ nx.conn # "connecting"
  BY <1>1, <1>3, DisconnectInv DEF Mine
<1>5. e \in Nat /\ e <= MaxErrors /\ errors <= e /\ e # 0
  <2>1. failed \in SUBSET Clients /\ e <= MaxErrors
    BY DEF MayFail
  <2>2. Cardinality(failed) \in Nat
    BY <2>1, NameFacts
  <2>3. QED
    BY <1>1, <2>1, <2>2
<1>6. ToSet(nx.cache) \subseteq ToSet(old.cache)
  BY <1>4 DEF ToSet
<1> HIDE DEF nx, e
<1>7. /\ client' = [client EXCEPT ![c] = nx] /\ errors' = e
      /\ fromNode' = [fromNode EXCEPT ![c] = <<>>]
      /\ toNode' = [toNode EXCEPT ![c] = <<>>]
      /\ UNCHANGED <<process, command, slots, clusterVars, typed>>
  BY <1>2 DEF ConnectionLost, nx, e
<1>8. QED
  BY <1>4, <1>5, <1>6, <1>7, OneClient

\* The process ends, or a slot changes its master.
LEMMA OthersKept ==
  ASSUME IInv, Types',
         UNCHANGED <<command, slots, client, toNode, fromNode, executed, typed, errors>>
  PROVE  IInv'
<1>1. \A c \in Clients :
        ClientInv(c, client[c], fromNode[c], toNode[c], slots, executed)'
  BY DEF IInv
<1>2. Handed' = Handed
  BY DEF Handed
<1>3. Known' = Known
  BY <1>2 DEF Known
<1>4. Numbered' /\ OneEach' /\ InTurn' /\ LoadedOnce' /\ NoneLost'
  BY <1>2, <1>3 DEF IInv, Numbered, OneEach, InTurn, LoadedOnce, NoneLost
<1>5. QED
  BY <1>1, <1>4 DEF IInv

\* The timer meets a bad pointer.
LEMMA TickCrashInv ==
  ASSUME IInv, TickCrash
  PROVE  IInv'
<1>1. Types'
  BY DEF TickCrash, IInv, Types, clusterVars
<1>2. QED
  BY <1>1, OthersKept DEF TickCrash, clusterVars

\* The cluster moves a slot: m_slots keeps what it was.
LEMMA ReshardInv ==
  ASSUME ConstantsAssumption, IInv, NEW s \in Slots, NEW n \in Nodes, Reshard(s, n)
  PROVE  IInv'
<1>1. moves \in 0..MaxMoves /\ MaxMoves \in Nat /\ moves < MaxMoves
      /\ moves' = moves + 1 /\ owner' = [owner EXCEPT ![s] = n]
  BY DEF Reshard, IInv, Types, ConstantsAssumption
<1>2. moves' \in 0..MaxMoves
  BY <1>1
<1>3. Types'
  BY <1>1, <1>2 DEF Reshard, IInv, Types
<1>4. QED
  BY <1>3, OthersKept DEF Reshard

\* Where an answer of CLUSTER SLOTS has arrived it is for the front command.
LEMMA SlotsAnswered ==
  ASSUME NEW cl, NEW from, NEW to, NEW ex, Context(cl, from, to, ex),
         NEW j \in 1..Len(from), from[j].kind = "slots"
  PROVE  cl.cache # <<>>
<1>1. j \in 1..Len(cl.callbacks) /\ j <= Len(from) /\ Len(from) \in Nat
  BY ClientTypes
<1>2. CallbackFits(cl, from, to \o cl.obuf, ex, j)
  BY <1>1 DEF Context, Aligned
<1>3. QED
  BY <1>1, <1>2 DEF CallbackFits

\* The clients once slotsLoadFinish has made those of the new masters.
WithMasters(nx, map, failed) ==
  [d \in Clients |-> IF d = Boot THEN nx
                     ELSE IF d \in NewMasters(map)
                     THEN ConnectInstanc(d, ConnOf(d, failed)) ELSE client[d]]

\* The first answer to CLUSTER SLOTS is the only one: no command was handed to
\* a client before, so each client works for any map.
LEMMA SlotsLoadedInv ==
  ASSUME ConstantsAssumption, IInv, NEW nx, NEW from,
         NEW map \in [Slots -> Nodes], client[Boot].cache # <<>>,
         NEW failed \in MayFail(NewMasters(map), errors),
         ClientInv(Boot, nx, from, toNode[Boot], slots, executed),
         nx.cache = <<>>, nx.conn \in {"up", "closing"},
         slots' = map,
         client' = WithMasters(nx, map, failed),
         errors' = errors + Cardinality(failed),
         fromNode' = [fromNode EXCEPT ![Boot] = from],
         UNCHANGED <<process, command, toNode, clusterVars, typed>>
  PROVE  IInv'
<1> USE DEF WithMasters
<1>1. /\ Types /\ \A d \in Clients : Mine(d)
      /\ command \in Seq(UserCmds) /\ executed \in Seq(UserCmds)
  BY DEF IInv, Mine, Numbered
<1>2. \A s \in Slots : slots[s] = NoNode
  BY DEF IInv, LoadedOnce
<1>3. executed = <<>>
  <2>1. SUFFICES ASSUME executed # <<>> PROVE FALSE
    OBVIOUS
  <2>2. 1 \in 1..Len(executed) /\ executed[1] \in UserCmds
    BY <1>1, <2>1, TailFacts
  <2>3. slots[executed[1].slot] \in Nodes /\ executed[1].slot \in Slots
    BY <2>2 DEF IInv, InTurn, UserCmds
  <2>4. QED
    BY <1>2, <2>3, NameFacts
<1>4. \A d \in Nodes : client[d].cache = <<>>
  <2>1. SUFFICES ASSUME NEW d \in Nodes, client[d].cache # <<>> PROVE FALSE
    OBVIOUS
  <2>2. d # Boot /\ d \in Clients /\ d # NoNode
    BY NameFacts
  <2>3. client[d].cache \in Seq(UserCmds)
        /\ \A i \in 1..Len(client[d].cache) : slots[client[d].cache[i].slot] = d
    BY <1>1, <2>2 DEF Mine, ClientInv, Holds
  <2>4. 1 \in 1..Len(client[d].cache) /\ client[d].cache[1] \in UserCmds
    BY <2>1, <2>3, TailFacts
  <2>5. QED
    BY <1>2, <2>2, <2>3, <2>4 DEF UserCmds
<1>5. executed' = <<>> /\ command' = command /\ typed' = typed
      /\ process' = process /\ toNode' = toNode /\ owner' = owner /\ moves' = moves
  BY <1>3 DEF clusterVars
<1>6. ASSUME NEW d \in Clients, NEW cl, NEW from1, NEW to1,
             Context(cl, from1, to1, <<>>), d # Boot => cl.cache = <<>>,
             d = Boot => cl = nx
      PROVE  ClientInv(d, cl, from1, to1, map, <<>>)
  <2>1. Behind(d, cl, from1, map, <<>>)
    BY <1>6 DEF Behind, Ascending
  <2>2. CASE d = Boot
    <3>1. Holds(d, cl, map)
      BY <1>6, <2>2 DEF ClientInv, Holds
    <3>2. QED
      BY <1>6, <2>1, <3>1 DEF ClientInv
  <2>3. CASE d # Boot
    <3>1. <<>> \in Seq(UserCmds) /\ \A i \in 1..Len(<<>>) : FALSE
      OBVIOUS
    <3>2. Holds(d, cl, map)
      BY <1>6, <2>3, <3>1 DEF Holds
    <3>3. QED
      BY <1>6, <2>1, <3>2 DEF ClientInv
  <2>4. QED
    BY <2>2, <2>3
<1>7. ASSUME NEW d \in NewMasters(map)
      PROVE  /\ d \in Nodes /\ fromNode[d] = <<>> /\ toNode[d] = <<>>
             /\ Context(ConnectInstanc(d, ConnOf(d, failed)), <<>>, <<>>, <<>>)
             /\ ConnectInstanc(d, ConnOf(d, failed)).cache = <<>>
  <2> DEFINE cl == ConnectInstanc(d, ConnOf(d, failed))
  <2>1. d \in Nodes /\ d \in Clients /\ ~client[d].made
    BY NameFacts DEF NewMasters
  <2>2. Context(client[d], fromNode[d], toNode[d], executed)
    BY <1>1, <2>1 DEF Mine, ClientInv
  <2>3. fromNode[d] = <<>> /\ toNode[d] = <<>>
    <3>1. client[d] = NoClient
      BY <2>1, <2>2 DEF Context
    <3>2. client[d].conn = "none"
      BY <3>1 DEF NoClient
    <3>3. QED
      BY <2>2, <3>2 DEF Context
  <2>4. <<>> \in Seq(Cmds) /\ <<>> \in Seq(Requests) /\ <<>> \in Seq({"msg", "lua"})
        /\ <<>> \in Seq(Replies) /\ <<>> \o <<>> = <<>>
    OBVIOUS
  <2>5. /\ cl \in ClientStates /\ cl.made = TRUE /\ cl.newAddr = NoNode
        /\ cl.conn \in {"dead", "connecting"} /\ cl.callbacks = <<>>
        /\ cl.obuf = <<>> /\ cl.cache = <<>> /\ cl.doing = FALSE
    BY <2>1, <2>4 DEF ConnectInstanc, NoClient, ConnOf, ClientStates
  <2> HIDE DEF cl
  <2>6. Aligned(cl, <<>>, <<>> \o cl.obuf, <<>>)
    BY <2>4, <2>5 DEF Aligned
  <2>7. Context(cl, <<>>, <<>>, <<>>)
    BY <2>4, <2>5, <2>6 DEF Context
  <2>8. QED
    BY <2>1, <2>3, <2>5, <2>7 DEF cl
<1>8. /\ fromNode'[Boot] = from /\ from \in Seq(Replies)
      /\ \A d \in Clients \ {Boot} : fromNode'[d] = fromNode[d]
      /\ fromNode' \in [Clients -> Seq(Replies)]
  <2>1. from \in Seq(Replies)
    BY DEF ClientInv, Context
  <2>2. QED
    BY <1>1, <2>1, NameFacts DEF Types
<1>9. ASSUME NEW d \in Clients
      PROVE  /\ client'[d] \in ClientStates
             /\ d # Boot => client'[d].cache = <<>>
             /\ ClientInv(d, client'[d], fromNode'[d], toNode'[d], map, <<>>)
  <2>1. CASE d = Boot
    <3>1. client'[d] = nx /\ fromNode'[d] = from /\ toNode'[d] = toNode[d]
      BY <1>5, <1>8, <2>1
    <3>2. Context(nx, from, toNode[d], <<>>)
      BY <1>3, <2>1 DEF ClientInv
    <3>3. ClientInv(d, nx, from, toNode[d], map, <<>>)
      BY <1>6, <2>1, <3>2
    <3>4. QED
      BY <2>1, <3>1, <3>2, <3>3 DEF Context
  <2>2. CASE d # Boot /\ d \in NewMasters(map)
    <3>1. /\ client'[d] = ConnectInstanc(d, ConnOf(d, failed))
          /\ fromNode'[d] = <<>> /\ toNode'[d] = <<>>
      BY <1>5, <1>7, <1>8, <2>2
    <3>2. Context(client'[d], <<>>, <<>>, <<>>) /\ client'[d].cache = <<>>
      BY <1>7, <2>2, <3>1
    <3>3. ClientInv(d, client'[d], <<>>, <<>>, map, <<>>)
      BY <1>6, <2>2, <3>2
    <3>4. QED
      BY <2>2, <3>1, <3>2, <3>3 DEF Context
  <2>3. CASE d # Boot /\ d \notin NewMasters(map)
    <3>1. client'[d] = client[d] /\ fromNode'[d] = fromNode[d] /\ toNode'[d] = toNode[d]
      BY <1>5, <1>8, <2>3
    <3>2. Context(client[d], fromNode[d], toNode[d], <<>>) /\ client[d].cache = <<>>
      BY <1>1, <1>3, <1>4, <2>3, NameFacts DEF Mine, ClientInv
    <3>3. ClientInv(d, client[d], fromNode[d], toNode[d], map, <<>>)
      BY <1>6, <2>3, <3>2
    <3>4. QED
      BY <2>3, <3>1, <3>2, <3>3 DEF Context
  <2>4. QED
    BY <2>1, <2>2, <2>3
<1>10. errors' \in 0..MaxErrors /\ errors \in Nat /\ errors <= errors' /\ errors' \in Nat
  <2>1. failed \in SUBSET Clients /\ errors' <= MaxErrors
    BY NameFacts DEF MayFail, NewMasters
  <2>2. Cardinality(failed) \in Nat /\ MaxErrors \in Nat
    BY <2>1, NameFacts
  <2>3. QED
    BY <1>1, <2>1, <2>2 DEF Types
<1>11. Types'
  <2>1. client' \in [Clients -> ClientStates]
    BY <1>9
  <2>2. slots' \in [Slots -> Nodes \cup {NoNode}]
    OBVIOUS
  <2>3. QED
    BY <1>1, <1>5, <1>8, <1>10, <2>1, <2>2 DEF Types
<1>12. Handed' = {} /\ Handed = {}
  <2>1. ToSet(<<>>) = {}
    BY DEF ToSet
  <2>2. \A d \in Nodes : client[d].cache = <<>> /\ client'[d].cache = <<>>
    BY <1>4, <1>9, NameFacts
  <2>3. QED
    BY <1>3, <1>5, <2>1, <2>2 DEF Handed
<1>13. Numbered' /\ OneEach' /\ NoneLost'
  <2>1. executed' \in Seq(UserCmds)
    BY <1>1, <1>3, <1>5
  <2>2. QED
    BY <1>5, <1>10, <1>12, <2>1, CommandsKept DEF IInv
<1>14. InTurn'
  BY <1>5 DEF InTurn
<1>15. LoadedOnce'
  BY NameFacts DEF LoadedOnce
<1>16. QED
  <2>1. \A d \in Clients :
          ClientInv(d, client[d], fromNode[d], toNode[d], slots, executed)'
    BY <1>5, <1>9
  <2>2. QED
    BY <1>11, <1>13, <1>14, <1>15, <2>1 DEF IInv

\* The answers that have arrived are read.
LEMMA ReadInv ==
  ASSUME ConstantsAssumption, IInv, NEW c \in Clients, Read(c)
  PROVE  IInv'
<1> DEFINE old == client[c]
<1>1. PICK k \in 1..Len(fromNode[c]) :
        LET replies == SubSeq(fromNode[c], 1, k)
            cl      == OnReplies(client[c], replies)
            leaves  == cl.conn = "closing" /\ cl.obuf = <<>>
        IN IF leaves /\ cl.callbacks # <<>>
           THEN /\ process' = "aborted"
                /\ UNCHANGED <<slots, client, toNode, fromNode, errors>>
           ELSE IF leaves
           THEN \E failed \in MayFail({c}, errors) :
                  /\ client' = [client EXCEPT
                       ![c] = DisconnectCallback(cl, ConnOf(c, failed))]
                  /\ errors' = errors + Cardinality(failed)
                  /\ toNode' = [toNode EXCEPT ![c] = <<>>]
                  /\ fromNode' = [fromNode EXCEPT ![c] = <<>>]
                  /\ UNCHANGED <<process, slots>>
           ELSE IF SlotsLoaded(replies)
           THEN LET map == TheSlots(replies)
                IN \E failed \in MayFail(NewMasters(map), errors) :
                     /\ slots' = map
                     /\ client' = [d \in Clients |->
                          IF d = c THEN cl
                          ELSE IF d \in NewMasters(map)
                               THEN ConnectInstanc(d, ConnOf(d, failed))
                               ELSE client[d]]
                     /\ errors' = errors + Cardinality(failed)
                     /\ fromNode' = [fromNode EXCEPT
                                       ![c] = SubSeq(fromNode[c], k + 1, Len(fromNode[c]))]
                     /\ UNCHANGED <<process, toNode>>
           ELSE /\ client' = [client EXCEPT ![c] = cl]
                /\ fromNode' = [fromNode EXCEPT
                                  ![c] = SubSeq(fromNode[c], k + 1, Len(fromNode[c]))]
                /\ UNCHANGED <<process, slots, toNode, errors>>
  BY DEF Read, IInv, Types
<1> DEFINE replies == SubSeq(fromNode[c], 1, k)
           cl == OnReplies(client[c], replies)
           rest == SubSeq(fromNode[c], k + 1, Len(fromNode[c]))
           leaves == cl.conn = "closing" /\ cl.obuf = <<>>
<1>2. /\ Types /\ Mine(c) /\ executed \in Seq(UserCmds)
      /\ old.conn \in {"up", "closing"}
      /\ UNCHANGED <<command, clusterVars, typed>>
      /\ errors \in Nat /\ MaxErrors \in Nat /\ errors <= MaxErrors
  BY SMTT(20) DEF IInv, Types, Mine, Numbered, Read, ConstantsAssumption
<1>3. /\ ClientInv(c, cl, rest, toNode[c], slots, executed)
      /\ cl.conn \in {"up", "closing"} /\ cl.made = old.made
      /\ ToSet(cl.cache) \subseteq ToSet(old.cache)
      /\ \A m \in ToSet(old.cache) \ ToSet(cl.cache) :
           m \in ToSet(executed) \cup {ClusterSlots}
      /\ SlotsLoaded(replies) => /\ c = Boot /\ cl.cache = <<>>
                                 /\ TheSlots(replies) \in [Slots -> Nodes]
  BY <1>2, RepliesRead DEF Mine
<1>4. ClusterSlots \notin UserCmds
  BY DEF ClusterSlots, UserCmds
<1>5. old.cache = <<>> => cl.cache = <<>>
  <2>1. ASSUME old.cache = <<>> PROVE ToSet(cl.cache) = {}
    <3>1. ToSet(<<>>) = {}
      BY DEF ToSet
    <3> HIDE DEF cl
    <3>2. QED
      BY <1>3, <2>1, <3>1
  <2>2. cl.cache \in Seq(Cmds)
    BY <1>3, ClientTypes DEF ClientInv
  <2>3. cl.cache # <<>> => Head(cl.cache) \in ToSet(cl.cache)
    <3> HIDE DEF cl
    <3>1. QED
      BY <2>2, TailFacts
  <2>4. QED
    BY <2>1, <2>3
<1> HIDE DEF cl, rest, replies
<1>6. CASE leaves /\ cl.callbacks # <<>>
  <2>1. process' = "aborted" /\ UNCHANGED <<slots, client, toNode, fromNode, errors>>
    BY <1>1, <1>6 DEF cl, replies
  <2>2. Types'
    BY <1>2, <2>1 DEF Types, clusterVars
  <2>3. QED
    BY <1>2, <2>1, <2>2, OthersKept DEF clusterVars
<1>7. CASE leaves /\ ~(cl.callbacks # <<>>)
  <2>1. PICK failed \in MayFail({c}, errors) :
          /\ client' = [client EXCEPT
               ![c] = DisconnectCallback(cl, ConnOf(c, failed))]
          /\ errors' = errors + Cardinality(failed)
          /\ toNode' = [toNode EXCEPT ![c] = <<>>]
          /\ fromNode' = [fromNode EXCEPT ![c] = <<>>]
          /\ UNCHANGED <<process, slots>>
    BY <1>1, <1>7 DEF cl, replies
  <2> DEFINE nx == DisconnectCallback(cl, ConnOf(c, failed))
             e == errors + Cardinality(failed)
  <2>2. ConnOf(c, failed) \in {"dead", "connecting"}
    BY DEF ConnOf
  <2>3. /\ ClientInv(c, nx, <<>>, <<>>, slots, executed)
        /\ nx.cache = cl.cache
        /\ c = Boot => nx.conn # "connecting"
    BY <1>3, <1>7, <2>2, DisconnectInv
  <2>4. e \in Nat /\ e <= MaxErrors /\ errors <= e
    <3>1. failed \in SUBSET Clients /\ e <= MaxErrors
      BY DEF MayFail
    <3>2. Cardinality(failed) \in Nat
      BY <3>1, NameFacts
    <3>3. QED
      BY <1>2, <3>1, <3>2
  <2>5. client' = [client EXCEPT ![c] = nx] /\ errors' = e
    BY <2>1
  <2> HIDE DEF nx, e
  <2>6. /\ ToSet(nx.cache) \cap UserCmds \subseteq ToSet(client[c].cache)
        /\ \A m \in ToSet(client[c].cache) \cap UserCmds :
             m \in ToSet(nx.cache) \cup ToSet(executed)
    BY <1>3, <1>4, <2>3
  <2>7. c = Boot /\ client[c].conn # "connecting"
          => nx.conn # "connecting" /\ (client[c].cache = <<>> => nx.cache = <<>>)
    BY <1>5, <2>3
  <2>8. QED
    BY <1>2, <2>1, <2>3, <2>4, <2>5, <2>6, <2>7, OneClient
<1>8. CASE ~leaves /\ SlotsLoaded(replies)
  <2> DEFINE map == TheSlots(replies)
  <2>1. PICK failed \in MayFail(NewMasters(map), errors) :
          /\ slots' = map
          /\ client' = [d \in Clients |->
               IF d = c THEN cl
               ELSE IF d \in NewMasters(map)
                    THEN ConnectInstanc(d, ConnOf(d, failed)) ELSE client[d]]
          /\ errors' = errors + Cardinality(failed)
          /\ fromNode' = [fromNode EXCEPT ![c] = rest]
          /\ UNCHANGED <<process, toNode>>
    BY <1>1, <1>8 DEF cl, replies, rest
  <2>2. c = Boot /\ cl.cache = <<>> /\ map \in [Slots -> Nodes]
    BY <1>3, <1>8
  <2>3. client[Boot].cache # <<>>
    <3>1. PICK i \in 1..Len(replies) : replies[i].kind = "slots"
      BY <1>8 DEF SlotsLoaded
    <3>2. fromNode[c] \in Seq(Replies) /\ Len(fromNode[c]) \in Nat
      BY <1>2, LenProperties DEF Types
    <3>3. k \in Nat /\ k <= Len(fromNode[c]) /\ 1 <= k
      BY <3>2
    <3>4. \A l \in 1..k : fromNode[c][l] \in Replies
      BY <3>2, <3>3
    <3>5. Len(replies) = k - 1 + 1 /\ \A l \in 1..k - 1 + 1 : replies[l] = fromNode[c][1 + l - 1]
      BY <3>3, <3>4, SubSeqProperties DEF replies
    <3>6. i \in 1..Len(fromNode[c]) /\ fromNode[c][i].kind = "slots"
      BY <3>1, <3>2, <3>3, <3>5
    <3>7. QED
      BY <1>2, <2>2, <3>6, SlotsAnswered DEF Mine, ClientInv
  <2> HIDE DEF map
  <2>4. /\ ClientInv(Boot, cl, rest, toNode[Boot], slots, executed)
        /\ cl.conn \in {"up", "closing"} /\ cl.cache = <<>>
        /\ UNCHANGED <<process, command, toNode, clusterVars, typed>>
        /\ fromNode' = [fromNode EXCEPT ![Boot] = rest]
        /\ client' = WithMasters(cl, map, failed)
    BY <1>2, <1>3, <2>1, <2>2 DEF WithMasters
  <2>5. QED
    BY <2>1, <2>2, <2>3, <2>4, SlotsLoadedInv
<1>9. CASE ~leaves /\ ~SlotsLoaded(replies)
  <2>1. /\ client' = [client EXCEPT ![c] = cl]
        /\ fromNode' = [fromNode EXCEPT ![c] = rest]
        /\ UNCHANGED <<process, slots, toNode, errors>>
    BY <1>1, <1>9 DEF cl, replies, rest
  <2>2. toNode' = [toNode EXCEPT ![c] = toNode[c]]
    BY <1>2, <2>1 DEF Types
  <2>3. /\ ToSet(cl.cache) \cap UserCmds \subseteq ToSet(client[c].cache)
        /\ \A m \in ToSet(client[c].cache) \cap UserCmds :
             m \in ToSet(cl.cache) \cup ToSet(executed)
        /\ errors <= errors
    BY <1>2, <1>3, <1>4
  <2>4. c = Boot /\ client[c].conn # "connecting"
          => cl.conn # "connecting" /\ (client[c].cache = <<>> => cl.cache = <<>>)
    BY <1>3, <1>5
  <2>5. QED
    BY <1>2, <1>3, <2>1, <2>2, <2>3, <2>4, OneClient
<1>10. QED
  BY <1>6, <1>7, <1>8, <1>9

\* A node answers, and may execute.
LEMMA ExecuteInv ==
  ASSUME ConstantsAssumption, IInv, NEW c \in Clients, Execute(c)
  PROVE  IInv'
<1> DEFINE cl == client[c]
           from == fromNode[c]
           to == toNode[c]
           sent == to \o cl.obuf
           cmd == Head(to)
           here == cmd.kind = "user" /\ owner[cmd.slot] = cl.addr
           r == IF cmd.kind = "user" /\ ~here
                THEN [kind |-> "moved", addr |-> owner[cmd.slot]]
                ELSE IF cmd.kind = "slots"
                THEN [kind |-> "slots", map |-> owner]
                ELSE [kind |-> "ok"]
           bound == typed - Len(command)
<1>1. /\ Types /\ Numbered /\ InTurn /\ \A d \in Clients : Mine(d)
      /\ Context(cl, from, to, executed) /\ Holds(c, cl, slots)
      /\ Behind(c, cl, from, slots, executed)
      /\ executed \in Seq(UserCmds) /\ to # <<>>
  BY DEF IInv, Mine, ClientInv, Numbered, Execute
<1>2. /\ cl \in ClientStates /\ from \in Seq(Replies) /\ to \in Seq(Requests)
      /\ cl.cache \in Seq(Cmds) /\ cl.callbacks \in Seq({"msg", "lua"})
      /\ cl.obuf \in Seq(Requests) /\ sent \in Seq(Requests)
      /\ Aligned(cl, from, sent, executed) /\ Len(from) \in Nat
      /\ \A i \in 1..Len(from) : i \in 1..Len(cl.callbacks)
  BY <1>1, ClientTypes
<1>3. /\ cmd \in Requests /\ Tail(to) \in Seq(Requests)
      /\ sent # <<>> /\ Head(sent) = cmd /\ Tail(sent) = Tail(to) \o cl.obuf
  <2>1. /\ to \in Seq(Requests) /\ cl.obuf \in Seq(Requests) /\ to # <<>>
    BY <1>1, <1>2
  <2>2. cmd \in Requests /\ Tail(to) \in Seq(Requests)
    BY <2>1, TailFacts
  <2>3. sent # <<>> /\ Head(sent) = cmd /\ Tail(sent) = Tail(to) \o cl.obuf
    BY <2>1, HeadOfTwo
  <2>4. QED
    BY <2>2, <2>3
<1>4. /\ executed' = IF here THEN Append(executed, cmd) ELSE executed
      /\ fromNode' = [fromNode EXCEPT ![c] = Append(from, r)]
      /\ toNode' = [toNode EXCEPT ![c] = Tail(to)]
      /\ UNCHANGED <<process, command, slots, client, owner, typed, moves, errors>>
  BY <1>1 DEF Execute, Types
<1>5. /\ cmd.kind = "user" => cmd \in UserCmds
      /\ cmd.kind \in {"user", "slots", "lua"}
      /\ cmd.kind = "slots" => cmd = ClusterSlots
      /\ cmd.kind = "lua" <=> cmd = LoadLua
  BY <1>3 DEF Requests, Cmds, UserCmds, ClusterSlots, LoadLua
<1>6. r \in Replies /\ (cmd = LoadLua => r.kind = "ok")
      /\ (r.kind = "moved" => cmd.kind = "user")
      /\ (r.kind = "slots" => cmd.kind = "slots")
      /\ (r.kind = "ok" => here \/ cmd.kind = "lua")
      /\ (here => r.kind = "ok")
  <2>1. owner \in [Slots -> Nodes]
    BY <1>1 DEF Types
  <2>2. cmd.kind = "user" => owner[cmd.slot] \in Nodes
    BY <1>5, <2>1 DEF UserCmds
  <2> HIDE DEF cmd
  <2>3. CASE cmd.kind = "user" /\ ~here
    BY <1>5, <2>2, <2>3 DEF Replies
  <2>4. CASE cmd.kind = "user" /\ here
    BY <1>5, <2>4 DEF Replies
  <2>5. CASE cmd.kind = "slots"
    BY <1>5, <2>1, <2>5 DEF Replies
  <2>6. CASE cmd.kind = "lua"
    BY <1>5, <2>6 DEF Replies
  <2>7. QED
    BY <1>5, <2>3, <2>4, <2>5, <2>6
<1>7. /\ executed' \in Seq(UserCmds)
      /\ ToSet(executed) \subseteq ToSet(executed')
      /\ here => cmd \in ToSet(executed')
      /\ ToSet(executed') \subseteq ToSet(executed) \cup {cmd}
      /\ ~here => executed' = executed
      /\ here => /\ Len(executed') = Len(executed) + 1
                 /\ executed'[Len(executed) + 1] = cmd
                 /\ \A i \in 1..Len(executed) : executed'[i] = executed[i]
      /\ Len(executed) \in Nat
  <2>1. CASE here
    <3>1. cmd \in UserCmds
      BY <1>5, <2>1
    <3> HIDE DEF cmd
    <3>2. executed' = Append(executed, cmd)
      BY <1>4, <2>1
    <3>3. QED
      BY <1>1, <2>1, <3>1, <3>2, AppendFacts
  <2>2. CASE ~here
    BY <1>1, <1>4, <2>2, LenProperties
  <2>3. QED
    BY <2>1, <2>2
<1> HIDE DEF r, cmd, sent
<1>8. cmd # LoadLua => ReplyFits(r, cmd, executed')
  BY <1>5, <1>6, <1>7 DEF ReplyFits
<1>9. /\ Aligned(cl, Append(from, r), Tail(sent), executed')
      /\ cmd # LoadLua => /\ cl.cache # <<>> /\ cmd = Head(cl.cache)
                          /\ Len(from) + 1 \in 1..Len(cl.callbacks)
                          /\ cl.callbacks[Len(from) + 1] = "msg"
  <2>1. /\ from \in Seq(Replies) /\ sent \in Seq(Requests) /\ r \in Replies
        /\ cl.callbacks \in Seq({"msg", "lua"}) /\ cl.cache \in Seq(Cmds)
        /\ Aligned(cl, from, sent, executed) /\ sent # <<>>
        /\ ToSet(executed) \subseteq ToSet(executed') /\ Head(sent) = cmd
    BY <1>2, <1>3, <1>6, <1>7
  <2>2. /\ Head(sent) = LoadLua => r.kind = "ok"
        /\ Head(sent) # LoadLua => ReplyFits(r, Head(sent), executed')
    BY <1>6, <1>8, <2>1
  <2>3. /\ Aligned(cl, Append(from, r), Tail(sent), executed')
        /\ Head(sent) # LoadLua =>
             /\ cl.cache # <<>> /\ Head(sent) = Head(cl.cache)
             /\ Len(from) + 1 \in 1..Len(cl.callbacks)
             /\ cl.callbacks[Len(from) + 1] = "msg"
    <3> HIDE DEF cl, from
    <3>1. QED
      BY <2>1, <2>2, AnswerAligned
  <2>4. QED
    BY <2>1, <2>3
<1>10. /\ Append(from, r) \in Seq(Replies) /\ Len(Append(from, r)) = Len(from) + 1
       /\ \A i \in 1..Len(from) : Append(from, r)[i] = from[i]
       /\ Append(from, r)[Len(from) + 1] = r
  BY <1>2, <1>6, AppendFacts
<1>11. here => /\ cl.cache # <<>> /\ cmd = Head(cl.cache) /\ cmd = cl.cache[1]
               /\ c \in Nodes /\ c # Boot /\ cl.cache \in Seq(UserCmds)
               /\ slots[cmd.slot] = c /\ 1 \in 1..Len(cl.cache)
               /\ ~Answered(cl, from)
               /\ Answered(cl, Append(from, r))
  <2>1. SUFFICES ASSUME here
                 PROVE  /\ cl.cache # <<>> /\ cmd = Head(cl.cache) /\ cmd = cl.cache[1]
                        /\ c \in Nodes /\ c # Boot /\ cl.cache \in Seq(UserCmds)
                        /\ slots[cmd.slot] = c /\ 1 \in 1..Len(cl.cache)
                        /\ ~Answered(cl, from)
                        /\ Answered(cl, Append(from, r))
    OBVIOUS
  <2>2. /\ cl.cache # <<>> /\ cmd = Head(cl.cache)
        /\ Len(from) + 1 \in 1..Len(cl.callbacks)
        /\ cl.callbacks[Len(from) + 1] = "msg"
    BY <1>5, <1>9, <2>1
  <2>3. cmd = cl.cache[1] /\ 1 \in 1..Len(cl.cache)
    BY <1>2, <2>2, TailFacts
  <2>4. c # Boot
    <3>1. Head(<<ClusterSlots>>).kind = "slots"
      BY DEF ClusterSlots
    <3>2. QED
      BY <1>1, <2>1, <2>2, <3>1 DEF Holds
  <2>5. c \in Nodes /\ cl.cache \in Seq(UserCmds) /\ slots[cmd.slot] = c
    BY <1>1, <2>3, <2>4, NameFacts DEF Holds
  <2>6. ~Answered(cl, from)
    <3>1. \A i \in 1..Len(from) : i \in 1..Len(cl.callbacks) /\ i # Len(from) + 1
      BY <1>2
    <3>2. QED
      BY <1>2, <2>2, <3>1 DEF Answered, Aligned
  <2>7. Answered(cl, Append(from, r))
    <3>1. Len(from) + 1 \in 1..Len(Append(from, r))
      BY <1>2, <1>10
    <3>2. QED
      BY <1>6, <1>10, <2>1, <2>2, <3>1 DEF Answered
  <2>8. QED
    BY <2>2, <2>3, <2>4, <2>5, <2>6, <2>7
<1>12. Answered(cl, from) => Answered(cl, Append(from, r))
  <2>1. \A i \in 1..Len(from) : i \in 1..Len(Append(from, r))
    BY <1>2, <1>10
  <2>2. QED
    BY <1>10, <2>1 DEF Answered
<1>13. Context(cl, Append(from, r), Tail(to), executed')
  <2>1. cl.conn \in {"up", "closing"}
    BY <1>1 DEF Context
  <2>2. Aligned(cl, Append(from, r), Tail(to) \o cl.obuf, executed')
    BY <1>3, <1>9
  <2>3. QED
    BY <1>1, <1>3, <1>10, <2>1, <2>2 DEF Context
<1>14. ASSUME NEW k \in 1..Len(executed'), NEW i \in 1..Len(cl.cache), c # Boot,
              slots[executed'[k].slot] = c
       PROVE  \/ executed'[k].id < cl.cache[i].id
              \/ i = 1 /\ Answered(cl, Append(from, r)) /\ executed'[k] = cl.cache[1]
  <2>1. CASE k \in 1..Len(executed)
    <3>1. executed'[k] = executed[k]
      BY <1>7, <2>1
    <3>2. \/ executed[k].id < cl.cache[i].id
          \/ i = 1 /\ Answered(cl, from) /\ executed[k] = cl.cache[1]
      BY <1>1, <1>14, <2>1, <3>1 DEF Behind
    <3>3. QED
      BY <1>12, <3>1, <3>2
  <2>2. CASE k \notin 1..Len(executed)
    <3>1. here /\ k = Len(executed) + 1
      BY <1>7, <2>2
    <3>2. executed'[k] = cl.cache[1] /\ Answered(cl, Append(from, r))
      BY <1>7, <1>11, <3>1
    <3>3. CASE i = 1
      BY <3>2, <3>3
    <3>4. CASE i # 1
      <4>1. 1 < i /\ 1 \in 1..Len(cl.cache)
        BY <1>11, <3>1, <3>4
      <4>2. Ascending(cl.cache)
        BY <1>1, <1>14 DEF Behind
      <4>3. QED
        BY <3>2, <4>1, <4>2 DEF Ascending
    <3>5. QED
      BY <3>3, <3>4
  <2>3. QED
    BY <2>1, <2>2
<1>15. ClientInv(c, cl, Append(from, r), Tail(to), slots, executed')
  <2>1. Behind(c, cl, Append(from, r), slots, executed')
    BY <1>1, <1>14 DEF Behind
  <2>2. QED
    BY <1>1, <1>13, <2>1 DEF ClientInv
<1>16. ASSUME NEW d \in Clients, d # c
       PROVE  ClientInv(d, client[d], fromNode[d], toNode[d], slots, executed')
  <2>1. ClientInv(d, client[d], fromNode[d], toNode[d], slots, executed)
    BY <1>1 DEF Mine
  <2>2. Context(client[d], fromNode[d], toNode[d], executed')
    <3>1. \A i \in 1..Len(client[d].callbacks) :
            CallbackFits(client[d], fromNode[d], toNode[d] \o client[d].obuf, executed, i)
            => CallbackFits(client[d], fromNode[d], toNode[d] \o client[d].obuf,
                            executed', i)
      BY <1>7 DEF CallbackFits, ReplyFits
    <3>2. Aligned(client[d], fromNode[d], toNode[d] \o client[d].obuf, executed')
      BY <2>1, <3>1 DEF ClientInv, Context, Aligned
    <3>3. QED
      BY <2>1, <3>2 DEF ClientInv, Context
  <2>3. Behind(d, client[d], fromNode[d], slots, executed')
    <3>1. ASSUME NEW k \in 1..Len(executed'), slots[executed'[k].slot] = d
          PROVE  k \in 1..Len(executed) /\ executed'[k] = executed[k]
      BY <1>7, <1>11, <1>16, <3>1
    <3>2. QED
      BY <2>1, <3>1 DEF ClientInv, Behind
  <2>4. QED
    BY <2>1, <2>2, <2>3 DEF ClientInv
<1>17. /\ client' = client /\ slots' = slots
       /\ fromNode'[c] = Append(from, r) /\ toNode'[c] = Tail(to)
       /\ \A d \in Clients \ {c} : fromNode'[d] = fromNode[d] /\ toNode'[d] = toNode[d]
       /\ fromNode' \in [Clients -> Seq(Replies)]
       /\ toNode' \in [Clients -> Seq(Requests)]
  BY <1>1, <1>3, <1>4, <1>10 DEF Types
<1>18. \A d \in Clients :
         ClientInv(d, client[d], fromNode[d], toNode[d], slots, executed)'
  <2>1. SUFFICES ASSUME NEW d \in Clients
                 PROVE  ClientInv(d, client'[d], fromNode'[d], toNode'[d], slots', executed')
    OBVIOUS
  <2>2. CASE d = c
    BY <1>15, <1>17, <2>2
  <2>3. CASE d # c
    BY <1>16, <1>17, <2>3
  <2>4. QED
    BY <2>2, <2>3
<1>19. Types'
  BY <1>1, <1>4, <1>17 DEF Types
<1>20. Numbered' /\ OneEach' /\ NoneLost'
  <2>1. here => cmd \in ToSet(cl.cache)
    <3>1. here => Head(cl.cache) \in ToSet(cl.cache)
      BY <1>2, <1>11, TailFacts
    <3>2. QED
      BY <1>11, <3>1
  <2>2. Handed' = Handed
    <3>1. ASSUME NEW m \in Handed' PROVE m \in Handed
      BY <1>7, <1>11, <1>17, <2>1, <3>1 DEF Handed
    <3>2. ASSUME NEW m \in Handed PROVE m \in Handed'
      BY <1>7, <1>17, <3>2 DEF Handed
    <3>3. QED
      BY <3>1, <3>2
  <2>3. errors \in Nat /\ errors' = errors /\ command' = command /\ typed' = typed
        /\ errors <= errors'
    BY <1>1, <1>4 DEF Types
  <2>4. QED
    BY <1>7, <2>2, <2>3, CommandsKept DEF IInv
<1>21. InTurn'
  <2>1. \A k \in 1..Len(executed') : slots[executed'[k].slot] \in Nodes
    <3>1. SUFFICES ASSUME NEW k \in 1..Len(executed')
                   PROVE  slots[executed'[k].slot] \in Nodes
      OBVIOUS
    <3>2. CASE k \in 1..Len(executed)
      BY <1>1, <1>7, <3>2 DEF InTurn
    <3>3. CASE k \notin 1..Len(executed)
      BY <1>7, <1>11, <3>3
    <3>4. QED
      BY <3>2, <3>3
  <2>2. ASSUME NEW i \in 1..Len(executed'), NEW j \in 1..Len(executed'), i < j,
               slots[executed'[i].slot] = slots[executed'[j].slot]
        PROVE  executed'[i].id < executed'[j].id
    <3>1. i \in 1..Len(executed) /\ executed'[i] = executed[i]
      BY <1>7, <2>2
    <3>2. CASE j \in 1..Len(executed)
      BY <1>1, <1>7, <2>2, <3>1, <3>2 DEF InTurn
    <3>3. CASE j \notin 1..Len(executed)
      <4>1. here /\ executed'[j] = cmd /\ slots[executed[i].slot] = c
        BY <1>7, <1>11, <2>2, <3>1, <3>3
      <4>2. executed[i].id < cl.cache[1].id
        BY <1>1, <1>11, <3>1, <4>1 DEF Behind
      <4>3. QED
        BY <1>11, <3>1, <4>1, <4>2
    <3>4. QED
      BY <3>2, <3>3
  <2>3. QED
    BY <1>17, <2>1, <2>2 DEF InTurn
<1>22. LoadedOnce'
  BY <1>17 DEF IInv, LoadedOnce
<1>23. QED
  BY <1>18, <1>19, <1>20, <1>21, <1>22 DEF IInv

\* The commands typed are handed out, and every client that may starts one.
LEMMA TickInv ==
  ASSUME ConstantsAssumption, IInv, Tick
  PROVE  IInv'
<1> DEFINE bound == typed - Len(command)
           mine(c) == ForClient(command, c)
<1>1. /\ Types /\ Numbered /\ \A d \in Clients : Mine(d)
      /\ command \in Seq(UserCmds) /\ executed \in Seq(UserCmds)
      /\ Len(command) \in Nat /\ typed \in Nat /\ bound \in Nat
      /\ DOMAIN command = 1..Len(command)
  <2>1. /\ Types /\ Numbered /\ \A d \in Clients : Mine(d)
        /\ command \in Seq(UserCmds) /\ executed \in Seq(UserCmds)
    BY DEF IInv, Mine, Numbered
  <2>2. Len(command) \in Nat /\ DOMAIN command = 1..Len(command)
    BY <2>1, LenProperties
  <2>3. typed \in Nat /\ Len(command) <= typed
    BY <2>1 DEF Types, Numbered
  <2>4. QED
    BY <2>1, <2>2, <2>3
<1>2. /\ ~NoRightCli /\ ~Starts("none") /\ command' = <<>>
      /\ client' = [c \in Clients |-> StartDoMsg(HandedOut(c))]
      /\ UNCHANGED <<process, slots, toNode, fromNode, owner, executed, moves, typed, errors>>
  BY DEF Tick, clusterVars
<1>3. Ascending(command)
        /\ \A i \in 1..Len(command) : command[i].id > bound /\ command[i].id \in Nat
                                      /\ command[i] \in UserCmds
  <2>1. \A i \in 1..Len(command) : command[i].id = bound + i /\ command[i] \in UserCmds
    BY <1>1 DEF Numbered
  <2> HIDE DEF bound
  <2>2. QED
    BY <1>1, <2>1 DEF Ascending
<1>4. \A c : /\ mine(c) \in Seq(UserCmds) /\ Ascending(mine(c))
             /\ ToSet(mine(c)) = {m \in ToSet(command) : slots[m.slot] = c}
  BY <1>1, <1>3, ForClientFacts
<1> HIDE DEF mine
<1>5. \A m \in ToSet(command) : /\ m \in UserCmds /\ m.id > bound
                                /\ slots[m.slot] \in {n \in Nodes : client[n].made}
  BY <1>1, <1>2, <1>3 DEF ToSet, NoRightCli
<1>6. ASSUME NEW c \in Clients, c = Boot \/ ~client[c].made
      PROVE  mine(c) = <<>>
  <2>1. ToSet(mine(c)) = {}
    BY <1>4, <1>5, <1>6, NameFacts
  <2>2. mine(c) # <<>> => Head(mine(c)) \in ToSet(mine(c))
    BY <1>4, TailFacts
  <2>3. QED
    BY <2>1, <2>2
<1>7. ASSUME NEW c \in Clients
      PROVE  /\ ClientInv(c, client'[c], fromNode'[c], toNode'[c], slots', executed')
             /\ client'[c].cache = client[c].cache \o mine(c)
             /\ client'[c].conn = client[c].conn
             /\ client[c].cache \in Seq(Cmds) /\ mine(c) \in Seq(Cmds)
  <2> DEFINE out == [client[c] EXCEPT !.cache = @ \o mine(c)]
  <2>1. out = HandedOut(c) /\ client[c] \in ClientStates
    BY <1>1 DEF HandedOut, Types, mine
  <2>2. out.cache = client[c].cache \o mine(c) /\ out.conn = client[c].conn
    BY <2>1 DEF ClientStates
  <2> HIDE DEF out
  <2>3. \A m \in ToSet(executed) \cup ToSet(client[c].cache) :
          m \in UserCmds => m.id <= bound
    <3>1. SUFFICES ASSUME NEW m \in ToSet(executed) \cup ToSet(client[c].cache),
                          m \in UserCmds
                   PROVE  m \in Handed
      BY <1>1 DEF Numbered
    <3>2. CASE c \in Nodes
      BY <3>1, <3>2 DEF Handed
    <3>3. CASE c = Boot
      <4>1. client[c].cache \in {<<>>, <<ClusterSlots>>}
        BY <1>1, <3>3 DEF Mine, ClientInv, Holds
      <4>2. ToSet(<<>>) = {} /\ ToSet(<<ClusterSlots>>) = {ClusterSlots}
        BY DEF ToSet
      <4>3. ClusterSlots \notin UserCmds
        BY DEF ClusterSlots, UserCmds
      <4>4. QED
        BY <3>1, <4>1, <4>2, <4>3 DEF Handed
    <3>4. QED
      BY <3>2, <3>3, NameFacts
  <2>4. ClientInv(c, out, fromNode[c], toNode[c], slots, executed)
    <3>1. /\ mine(c) \in Seq(UserCmds) /\ Ascending(mine(c))
          /\ \A m \in ToSet(mine(c)) : slots[m.slot] = c /\ m.id > bound
      BY <1>4, <1>5
    <3>2. c = Boot \/ ~client[c].made => mine(c) = <<>>
      BY <1>6
    <3>3. ClientInv(c, client[c], fromNode[c], toNode[c], slots, executed)
      BY <1>1 DEF Mine
    <3> HIDE DEF bound
    <3>4. QED
      BY <1>1, <2>3, <3>1, <3>2, <3>3, HandedOutInv DEF out
  <2>5. CanStart(out) => out.conn # "none"
    BY <1>2, <2>1, <2>2 DEF Starts
  <2>6. /\ ClientInv(c, StartDoMsg(out), fromNode[c], toNode[c], slots, executed)
        /\ StartDoMsg(out).cache = out.cache /\ StartDoMsg(out).conn = out.conn
    BY <2>4, <2>5, StartDoMsgInv
  <2>7. client'[c] = StartDoMsg(out)
    BY <1>2, <2>1
  <2>8. client[c].cache \in Seq(Cmds) /\ mine(c) \in Seq(Cmds)
    <3>1. UserCmds \subseteq Cmds
      BY DEF UserCmds, Cmds
    <3>2. mine(c) \in Seq(Cmds)
      BY <1>4, <3>1, SeqMonotonic
    <3>3. QED
      BY <2>1, <3>2 DEF ClientStates
  <2>9. QED
    BY <1>2, <2>2, <2>6, <2>7, <2>8
<1>8. Types'
  <2>1. client' \in [Clients -> ClientStates]
    <3>1. \A c \in Clients : client'[c] \in ClientStates
      BY <1>7 DEF ClientInv, Context
    <3>2. QED
      BY <1>2, <3>1
  <2>2. QED
    BY <1>1, <1>2, <2>1 DEF Types
<1>9. \A c \in Clients : ToSet(client'[c].cache) = ToSet(client[c].cache) \cup ToSet(mine(c))
  <2>1. SUFFICES ASSUME NEW c \in Clients
                 PROVE  ToSet(client'[c].cache) = ToSet(client[c].cache) \cup ToSet(mine(c))
    OBVIOUS
  <2>2. /\ client'[c].cache = client[c].cache \o mine(c)
        /\ client[c].cache \in Seq(Cmds) /\ mine(c) \in Seq(Cmds)
    BY <1>7
  <2>3. ToSet(client[c].cache \o mine(c)) = ToSet(client[c].cache) \cup ToSet(mine(c))
    BY <2>2, ConcatFacts
  <2>4. QED
    BY <2>2, <2>3
<1>10. Handed' = Known
  <2>1. ASSUME NEW m \in Handed' PROVE m \in Known
    <3>1. CASE m \in ToSet(executed)
      BY <1>2, <2>1, <3>1 DEF Handed, Known
    <3>2. CASE m \notin ToSet(executed)
      <4>1. PICK d \in Nodes : m \in ToSet(client'[d].cache)
        BY <1>2, <2>1, <3>2 DEF Handed
      <4>2. m \in ToSet(client[d].cache) \/ m \in ToSet(command)
        BY <1>4, <1>9, <4>1, NameFacts
      <4>3. QED
        BY <2>1, <4>2 DEF Handed, Known
    <3>3. QED
      BY <3>1, <3>2
  <2>2. ASSUME NEW m \in Known PROVE m \in Handed'
    <3>1. m \in UserCmds
      BY <2>2 DEF Known
    <3>2. CASE m \in ToSet(executed)
      BY <1>2, <3>1, <3>2 DEF Handed
    <3>3. CASE m \in ToSet(command)
      <4>1. slots[m.slot] \in Nodes /\ m \in ToSet(mine(slots[m.slot]))
        BY <1>4, <1>5, <3>3
      <4>2. m \in ToSet(client'[slots[m.slot]].cache)
        BY <1>9, <4>1, NameFacts
      <4>3. QED
        BY <3>1, <4>1, <4>2 DEF Handed
    <3>4. CASE m \notin ToSet(executed) /\ m \notin ToSet(command)
      <4>1. PICK d \in Nodes : m \in ToSet(client[d].cache)
        BY <2>2, <3>4 DEF Known, Handed
      <4>2. m \in ToSet(client'[d].cache)
        BY <1>9, <4>1, NameFacts
      <4>3. QED
        BY <3>1, <4>1, <4>2 DEF Handed
    <3>5. QED
      BY <3>2, <3>3, <3>4
  <2>3. QED
    BY <2>1, <2>2
<1>11. Known' = Known
  <2>1. ToSet(<<>>) = {}
    BY DEF ToSet
  <2>2. \A m \in Known : m \in UserCmds
    BY DEF Known
  <2>3. \A m : m \in Known' <=> m \in UserCmds /\ (m \in ToSet(command') \/ m \in Handed')
    BY DEF Known
  <2>4. QED
    BY <1>2, <1>10, <2>1, <2>2, <2>3
<1>12. Numbered'
  <2>1. /\ command' \in Seq(UserCmds) /\ Len(command') = 0 /\ executed' \in Seq(UserCmds)
        /\ typed' = typed
    BY <1>1, <1>2
  <2>2. \A m \in Handed' : m.id <= typed
    <3>1. SUFFICES ASSUME NEW m \in Known PROVE m.id <= typed
      BY <1>10
    <3>2. m.id \in Nat
      BY <3>1 DEF Known, UserCmds
    <3>3. CASE m \in Handed
      BY <1>1, <3>2, <3>3 DEF Numbered
    <3>4. CASE m \in ToSet(command)
      <4>1. PICK i \in 1..Len(command) : m = command[i]
        BY <1>1, <3>4 DEF ToSet
      <4>2. m.id = bound + i
        BY <1>1, <4>1 DEF Numbered
      <4>3. QED
        BY <1>1, <4>1, <4>2
    <3>5. QED
      BY <3>1, <3>3, <3>4 DEF Known
  <2>3. QED
    BY <1>1, <2>1, <2>2 DEF Numbered
<1>13. OneEach' /\ NoneLost'
  BY <1>2, <1>11 DEF IInv, OneEach, NoneLost
<1>14. InTurn'
  BY <1>2 DEF IInv, InTurn
<1>15. LoadedOnce'
  <2>1. client'[Boot].cache = client[Boot].cache /\ client'[Boot].conn = client[Boot].conn
    BY <1>6, <1>7, NameFacts, ConcatEmptySeq
  <2>2. QED
    BY <1>2, <2>1 DEF IInv, LoadedOnce
<1>16. QED
  BY <1>7, <1>8, <1>12, <1>13, <1>14, <1>15 DEF IInv

-----------------------------------------------------------------------------
(***************************************************************************)
(* The invariant, and what follows from it.                                *)
(***************************************************************************)

\* The program starts with the bootstrap client connecting, and nothing sent.
LEMMA InitInv ==
  ASSUME ConstantsAssumption, Init
  PROVE  IInv
<1>1. /\ NoClient \in ClientStates
      /\ ConnectInstanc(BootAddr, "connecting") \in ClientStates
  BY EmptySeq DEF NoClient, ConnectInstanc, ClientStates, ConstantsAssumption
<1>2. /\ process = "running" /\ command = <<>> /\ slots = [s \in Slots |-> NoNode]
      /\ client \in [Clients -> ClientStates]
      /\ \A c \in Clients : client[c] = IF c = Boot
                                        THEN ConnectInstanc(BootAddr, "connecting")
                                        ELSE NoClient
      /\ toNode = [c \in Clients |-> <<>>] /\ fromNode = [c \in Clients |-> <<>>]
      /\ owner \in [Slots -> Nodes] /\ executed = <<>>
      /\ typed = 0 /\ moves = 0 /\ errors = 0
  BY <1>1 DEF Init
<1>3. Types
  BY <1>2, EmptySeq DEF Types, ConstantsAssumption
<1>4. /\ \A q : Len(<<>>) = 0 /\ <<>> \o <<>> = <<>>
      /\ \A S : <<>> \in Seq(S)
      /\ ToSet(<<>>) = {}
  BY DEF ToSet
<1>5. ASSUME NEW c \in Clients
      PROVE  ClientInv(c, client[c], fromNode[c], toNode[c], slots, executed)
  <2>1. /\ client[c] \in ClientStates /\ fromNode[c] = <<>> /\ toNode[c] = <<>>
    BY <1>2
  <2>2. /\ client[c].cache = <<>> /\ client[c].callbacks = <<>>
        /\ client[c].obuf = <<>> /\ client[c].newAddr = NoNode
        /\ ~client[c].doing /\ client[c].conn \in {"none", "connecting"}
        /\ ~client[c].made => client[c] = NoClient
    <3>1. CASE c = Boot
      BY <1>2, <3>1 DEF NoClient, ConnectInstanc
    <3>2. CASE c # Boot
      <4>1. client[c] = NoClient
        BY <1>2, <3>2
      <4>2. QED
        BY <4>1 DEF NoClient
    <3>3. QED
      BY <3>1, <3>2
  <2>3. Aligned(client[c], <<>>, <<>>, executed)
    BY <1>4, <2>2 DEF Aligned
  <2>4. Context(client[c], <<>>, <<>>, executed)
    BY <1>4, <2>1, <2>2, <2>3 DEF Context
  <2>5. Holds(c, client[c], slots)
    BY <1>4, <2>2 DEF Holds
  <2>6. Behind(c, client[c], <<>>, slots, executed)
    BY <1>2, <1>4, <2>2 DEF Behind, Ascending
  <2>7. QED
    BY <2>1, <2>4, <2>5, <2>6 DEF ClientInv
<1>6. \A c \in Nodes : client[c].cache = <<>>
  BY <1>2, NameFacts DEF NoClient
<1>7. Handed = {} /\ Known = {}
  BY <1>2, <1>4, <1>6 DEF Handed, Known
<1>8. Numbered
  BY <1>2, <1>4, <1>7 DEF Numbered
<1>9. OneEach /\ InTurn /\ NoneLost
  BY <1>2, <1>4, <1>7 DEF OneEach, InTurn, NoneLost
<1>10. LoadedOnce
  BY <1>2 DEF LoadedOnce
<1>11. QED
  BY <1>3, <1>5, <1>8, <1>9, <1>10 DEF IInv

\* The invariant holds in every state that the program and the cluster reach.
THEOREM Invariance == Spec => []IInv
<1>1. Init => IInv
  BY InitInv, ConstantsAssumption
<1>2. IInv /\ [Next]_vars => IInv'
  <2>1. SUFFICES ASSUME IInv, [Next]_vars PROVE IInv'
    OBVIOUS
  <2>2. ASSUME NEW s \in Slots, AddCommand(s) PROVE IInv'
    BY <2>1, <2>2, AddCommandInv, ConstantsAssumption
  <2>3. CASE Tick
    BY <2>1, <2>3, TickInv, ConstantsAssumption
  <2>4. CASE TickCrash
    BY <2>1, <2>4, TickCrashInv
  <2>5. ASSUME NEW c \in Clients, Connected(c) PROVE IInv'
    BY <2>1, <2>5, ConnectedInv, ConstantsAssumption
  <2>6. ASSUME NEW c \in Clients, ConnectFails(c) PROVE IInv'
    BY <2>1, <2>6, ConnectFailsInv, ConstantsAssumption
  <2>7. ASSUME NEW c \in Clients, Write(c) PROVE IInv'
    BY <2>1, <2>7, WriteInv, ConstantsAssumption
  <2>8. ASSUME NEW c \in Clients, Read(c) PROVE IInv'
    BY <2>1, <2>8, ReadInv, ConstantsAssumption
  <2>9. ASSUME NEW c \in Clients, ConnectionLost(c) PROVE IInv'
    BY <2>1, <2>9, ConnectionLostInv, ConstantsAssumption
  <2>10. ASSUME NEW c \in Clients, Execute(c) PROVE IInv'
    BY <2>1, <2>10, ExecuteInv, ConstantsAssumption
  <2>11. ASSUME NEW s \in Slots, NEW n \in Nodes, Reshard(s, n) PROVE IInv'
    BY <2>1, <2>11, ReshardInv, ConstantsAssumption
  <2>12. CASE UNCHANGED vars
    <3>1. Types'
      BY <2>1, <2>12 DEF IInv, Types, vars, clusterVars
    <3>2. QED
      BY <2>1, <2>12, <3>1, OthersKept DEF vars, clusterVars
  <2>13. QED
    BY <2>1, <2>2, <2>3, <2>4, <2>5, <2>6, <2>7, <2>8, <2>9, <2>10, <2>11, <2>12
       DEF Next
<1>3. QED
  BY <1>1, <1>2, PTL DEF Spec

\* The states of the clients and what reset() and a freed context leave.
THEOREM TypeCorrect == Spec => []TypeOK
<1>1. IInv => TypeOK
  <2>1. SUFFICES ASSUME IInv PROVE TypeOK
    OBVIOUS
  <2>2. UserCmds \subseteq Cmds
    BY DEF UserCmds, Cmds
  <2>3. command \in Seq(Cmds) /\ executed \in Seq(Cmds)
    BY <2>1, <2>2, SeqMonotonic DEF IInv, Numbered
  <2>4. \A c \in Clients :
          /\ ~client[c].made => client[c] = NoClient
          /\ client[c].conn \in {"none", "freed"}
               => client[c].obuf = <<>> /\ client[c].callbacks = <<>>
          /\ client[c].conn = "none"
               => ~client[c].doing /\ client[c].newAddr = NoNode
    BY <2>1 DEF IInv, ClientInv, Context
  <2>5. QED
    BY <2>1, <2>3, <2>4 DEF IInv, Types, TypeOK
<1>2. QED
  BY <1>1, Invariance, PTL

\* One command, one reply: no answer is taken for that of another command,
\* and what is answered well was executed.
THEOREM RepliesMatch == Spec => []ReplyMatchesFront
<1>1. IInv => ReplyMatchesFront
  BY DEF IInv, ClientInv, Context, ReplyMatchesFront
<1>2. QED
  BY <1>1, Invariance, PTL

\* The commands for one slot are executed in the order they were typed, across
\* redirections and a slot that changes its master in between.
THEOREM SlotsInOrder == Spec => []SlotOrder
<1>1. IInv => SlotOrder
  BY DEF IInv, InTurn, SlotOrder
<1>2. QED
  BY <1>1, Invariance, PTL

\* However often a command is answered MOVED and sent again, and whatever
\* connections fail, it is executed at most once: a command has one id and one
\* slot, and those of a slot go in strictly rising order.
THEOREM OnlyOnce == Spec => []ExecutedOnce
<1>1. IInv => ExecutedOnce
  <2>1. SUFFICES ASSUME IInv, NEW i \in 1..Len(executed), NEW j \in 1..Len(executed),
                        executed[i].id = executed[j].id, i # j
                 PROVE  FALSE
    BY DEF ExecutedOnce
  <2>2. executed \in Seq(UserCmds) /\ Len(executed) \in Nat /\ DOMAIN executed = 1..Len(executed)
    BY <2>1, LenProperties DEF IInv, Numbered
  <2>3. \A k \in 1..Len(executed) : /\ executed[k] \in Known
                                    /\ executed[k].id \in Nat
    <3>1. SUFFICES ASSUME NEW k \in 1..Len(executed)
                   PROVE  executed[k] \in Known /\ executed[k].id \in Nat
      OBVIOUS
    <3>2. executed[k] \in UserCmds /\ executed[k] \in ToSet(executed)
      BY <2>2 DEF ToSet
    <3>3. QED
      BY <3>2 DEF Known, Handed, UserCmds
  <2>4. executed[i] = executed[j]
    BY <2>1, <2>3 DEF IInv, OneEach
  <2>5. InTurn
    BY <2>1 DEF IInv
  <2>6. i < j \/ j < i
    BY <2>1, <2>2
  <2>7. QED
    BY <2>1, <2>3, <2>4, <2>5, <2>6 DEF InTurn
<1>2. QED
  BY <1>1, Invariance, PTL

\* While no connection has failed, every command typed is waiting or was
\* executed: a redirection loses none.
THEOREM NoneForgotten == Spec => []Accounted
<1>1. IInv => Accounted
  <2>1. SUFFICES ASSUME IInv, errors = 0, NEW n \in 1..typed
                 PROVE  \/ n \in Ids(command) \/ n \in Ids(executed)
                        \/ \E c \in Clients : n \in Ids(client[c].cache)
    BY DEF Accounted
  <2>2. PICK m \in Known : m.id = n
    BY <2>1 DEF IInv, NoneLost
  <2>3. m.kind = "user"
    BY DEF Known, UserCmds
  <2>4. ASSUME NEW q, m \in ToSet(q), q \in Seq(Cmds) PROVE n \in Ids(q)
    <3>1. PICK i \in 1..Len(q) : m = q[i]
      BY <2>4, LenProperties DEF ToSet
    <3>2. QED
      BY <2>2, <2>3, <3>1 DEF Ids
  <2>5. UserCmds \subseteq Cmds
    BY DEF UserCmds, Cmds
  <2>6. command \in Seq(Cmds) /\ executed \in Seq(Cmds)
    BY <2>1, <2>5, SeqMonotonic DEF IInv, Numbered
  <2>7. \A c \in Nodes : c \in Clients /\ client[c].cache \in Seq(Cmds)
    BY <2>1 DEF IInv, Types, ClientStates, Clients
  <2>8. QED
    BY <2>2, <2>4, <2>6, <2>7 DEF Known, Handed
<1>2. QED
  BY <1>1, Invariance, PTL
=============================================================================

------------------------- MODULE CacheServer_proofs -------------------------
(***************************************************************************)
(* Types, the messages of each queue and the states of the connections,    *)
(* for every number of accounts, saves, connections and starts.            *)
(***************************************************************************)
EXTENDS CacheServer, QueueFacts, FiniteSetTheorems, TLAPS

\* What belongs to a login of an account, and its saves.
LoginsOf(a) == {m \in Messages : m.login /\ m.acc = a}
SavesOf(a) == {m \in Messages : m.type = "WS_REDIS_SAVEPLAYERINFO" /\ m.acc = a}
DbSavesOf(a) == {m \in Messages : m.type = "REDIS_2_DB_SAVEPLAYERINFO" /\ m.acc = a}

Quit == Signal("WS_REDIS_QUIT")
Load == Signal("REDIS_2_DB_ALLPLAYERINFO")
DbQuit == Signal("REDIS_DB_QUIT")
Finish == Signal("DB_2_REDIS_ALLLOADFINISH")
QuitAnswer == Signal("DB_REDIS_QUIT")
LoadRecords == {m \in Messages : m.type = "DB_2_REDIS_ALLPLAYERINFO" /\ ~m.login}

\* The messages of each queue.
Of(type, login) ==
  {m \in Messages : m.type = type /\ m.acc \in Accounts /\ m.login = login}
WsRequests == Of("WS_REDIS_LOADPLAYERINFO", TRUE)
              \cup Of("WS_REDIS_SAVEPLAYERINFO", FALSE) \cup {Quit}
DbRequests == Of("REDIS_DB_LOADONEPLAYERINFO", TRUE)
              \cup Of("REDIS_2_DB_SAVEPLAYERINFO", FALSE) \cup {Load, DbQuit}
DbAnswers == Of("DB_2_REDIS_ALLPLAYERINFO", TRUE)
             \cup Of("DB_2_REDIS_ALLPLAYERINFO", FALSE) \cup {Finish, QuitAnswer}
WsAnswers == Of("REDIS_WS_LOADPLAYERINFO", TRUE)

-----------------------------------------------------------------------------
(***************************************************************************)
(* The inductive invariant.                                                *)
(***************************************************************************)
QueuesOK ==
  /\ toDb \in Seq(DbRequests) /\ fromDb \in Seq(DbAnswers)
  /\ toCache \in [Conns -> Seq(WsRequests)] /\ toWs \in [Conns -> Seq(WsAnswers)]

LinksOK ==
  /\ wsUp => wsConns > 0
  /\ \A c \in Conns :
       /\ c > wsConns => wsSock[c] = "none" /\ toWs[c] = <<>>
       /\ wsSock[c] \notin {"backlog", "open"} => toCache[c] = <<>>
       /\ ~Running => wsSock[c] \notin {"backlog", "open"}

Base == TypeOK /\ QueuesOK /\ LinksOK

-----------------------------------------------------------------------------
(***************************************************************************)
(* What a message is, by its type.                                         *)
(***************************************************************************)
USE DEF Msg, Signal

LEMMA ZeroVersion == 0 \in Versions
  BY ConstantsAssumption DEF Versions

LEMMA SignalsOK ==
  /\ Quit \in Messages /\ Load \in Messages /\ DbQuit \in Messages
  /\ Finish \in Messages /\ QuitAnswer \in Messages
  BY ZeroVersion DEF Messages, MsgTypes, Quit, Load, DbQuit, Finish, QuitAnswer

LEMMA MessageFields ==
  ASSUME NEW m \in Messages
  PROVE  m.ver \in Versions /\ m.login \in BOOLEAN
  BY DEF Messages

LEMMA WsRequestKinds ==
  ASSUME NEW m \in WsRequests
  PROVE  /\ m \in Messages
         /\ m.type \in {"WS_REDIS_LOADPLAYERINFO", "WS_REDIS_SAVEPLAYERINFO",
                        "WS_REDIS_QUIT"}
         /\ m.type # "WS_REDIS_QUIT" => m.acc \in Accounts
         /\ m \in {Quit} <=> m.type = "WS_REDIS_QUIT"
         /\ \A a \in Accounts :
              /\ m \in LoginsOf(a) <=> m.type = "WS_REDIS_LOADPLAYERINFO" /\ m.acc = a
              /\ m \in SavesOf(a) <=> m.type = "WS_REDIS_SAVEPLAYERINFO" /\ m.acc = a
<1>1. m \in Messages
  BY SignalsOK DEF WsRequests, Of
<1>2. CASE m = Quit
  BY <1>1, <1>2 DEF LoginsOf, SavesOf, Quit
<1>3. CASE m \in Of("WS_REDIS_LOADPLAYERINFO", TRUE)
  BY <1>1, <1>3 DEF Of, LoginsOf, SavesOf, Quit
<1>4. CASE m \in Of("WS_REDIS_SAVEPLAYERINFO", FALSE)
  BY <1>1, <1>4 DEF Of, LoginsOf, SavesOf, Quit
<1>5. QED
  BY <1>2, <1>3, <1>4 DEF WsRequests

LEMMA DbRequestKinds ==
  ASSUME NEW m \in DbRequests
  PROVE  /\ m \in Messages
         /\ m.type \in {"REDIS_2_DB_ALLPLAYERINFO", "REDIS_DB_LOADONEPLAYERINFO",
                        "REDIS_2_DB_SAVEPLAYERINFO", "REDIS_DB_QUIT"}
         /\ m \in {Load} <=> m.type = "REDIS_2_DB_ALLPLAYERINFO"
         /\ m.type = "REDIS_DB_LOADONEPLAYERINFO" => m.acc \in Accounts
         /\ m.type = "REDIS_2_DB_SAVEPLAYERINFO" => m.acc \in Accounts
         /\ m \in {DbQuit} <=> m.type = "REDIS_DB_QUIT"
         /\ \A a \in Accounts :
              /\ m \in LoginsOf(a) <=> m.type = "REDIS_DB_LOADONEPLAYERINFO" /\ m.acc = a
              /\ m \in DbSavesOf(a) <=> m.type = "REDIS_2_DB_SAVEPLAYERINFO" /\ m.acc = a
<1>1. m \in Messages
  BY SignalsOK DEF DbRequests, Of
<1>2. CASE m \in {Load, DbQuit}
  BY <1>1, <1>2 DEF LoginsOf, DbSavesOf, Load, DbQuit
<1>3. CASE m \in Of("REDIS_DB_LOADONEPLAYERINFO", TRUE)
  BY <1>1, <1>3 DEF Of, LoginsOf, DbSavesOf, Load, DbQuit
<1>4. CASE m \in Of("REDIS_2_DB_SAVEPLAYERINFO", FALSE)
  BY <1>1, <1>4 DEF Of, LoginsOf, DbSavesOf, Load, DbQuit
<1>5. QED
  BY <1>2, <1>3, <1>4 DEF DbRequests

LEMMA DbAnswerKinds ==
  ASSUME NEW m \in DbAnswers
  PROVE  /\ m \in Messages
         /\ m.type \in {"DB_2_REDIS_ALLPLAYERINFO", "DB_2_REDIS_ALLLOADFINISH",
                        "DB_REDIS_QUIT"}
         /\ m.type = "DB_2_REDIS_ALLPLAYERINFO" => m.acc \in Accounts
         /\ m \in LoadRecords <=> m.type = "DB_2_REDIS_ALLPLAYERINFO" /\ ~m.login
         /\ m \in {Finish} <=> m.type = "DB_2_REDIS_ALLLOADFINISH"
         /\ m \in {QuitAnswer} <=> m.type = "DB_REDIS_QUIT"
         /\ \A a \in Accounts :
              m \in LoginsOf(a) <=> /\ m.type = "DB_2_REDIS_ALLPLAYERINFO"
                                   /\ m.login /\ m.acc = a
<1>1. m \in Messages
  BY SignalsOK DEF DbAnswers, Of
<1>2. CASE m \in {Finish, QuitAnswer}
  BY <1>1, <1>2 DEF LoginsOf, LoadRecords, Finish, QuitAnswer
<1>3. CASE \E login \in BOOLEAN : m \in Of("DB_2_REDIS_ALLPLAYERINFO", login)
  BY <1>1, <1>3 DEF Of, LoginsOf, LoadRecords, Finish, QuitAnswer
<1>4. QED
  BY <1>2, <1>3 DEF DbAnswers

LEMMA WsAnswerKinds ==
  ASSUME NEW m \in WsAnswers
  PROVE  /\ m \in Messages /\ m.acc \in Accounts
         /\ \A a \in Accounts : m \in LoginsOf(a) <=> m.acc = a
  BY DEF WsAnswers, Of, LoginsOf

LEMMA AllMessages ==
  /\ Seq(DbRequests) \subseteq Seq(Messages) /\ Seq(DbAnswers) \subseteq Seq(Messages)
  /\ [Conns -> Seq(WsRequests)] \subseteq [Conns -> Seq(Messages)]
  /\ [Conns -> Seq(WsAnswers)] \subseteq [Conns -> Seq(Messages)]
<1>1. /\ WsRequests \subseteq Messages /\ DbRequests \subseteq Messages
      /\ DbAnswers \subseteq Messages /\ WsAnswers \subseteq Messages
  BY WsRequestKinds, DbRequestKinds, DbAnswerKinds, WsAnswerKinds
<1>2. /\ Seq(WsRequests) \subseteq Seq(Messages) /\ Seq(WsAnswers) \subseteq Seq(Messages)
      /\ Seq(DbRequests) \subseteq Seq(Messages) /\ Seq(DbAnswers) \subseteq Seq(Messages)
  BY <1>1, SeqMonotonic
<1>3. QED
  BY <1>2

\* hgetall and the load go through all of a set, in some order.
LEMMA OrderFacts ==
  ASSUME NEW S, IsFiniteSet(S), NEW order \in SetToSeqs(S)
  PROVE  /\ Len(order) \in Nat
         /\ \A i \in 1..Len(order) : order[i] \in S
         /\ \A x \in S : \E i \in 1..Len(order) : order[i] = x
<1> DEFINE n == Cardinality(S)
<1>1. n \in Nat
  BY FS_CardinalityType
<1> HIDE DEF n
<1>2. order \in [1..n -> S] /\ \A i, j \in 1..n : i # j => order[i] # order[j]
  BY DEF SetToSeqs, n
<1>3. Len(order) = n
  <2>1. order \in Seq(S)
    BY <1>1, <1>2
  <2>2. DOMAIN order = 1..Len(order) /\ Len(order) \in Nat
    BY <2>1, LenProperties
  <2>3. 1..Len(order) = 1..n
    BY <1>2, <2>2
  <2> DEFINE m == Len(order)
  <2> HIDE DEF m
  <2>4. m \in Nat /\ 1..m = 1..n
    BY <2>2, <2>3 DEF m
  <2>5. m <= n
    <3>1. CASE m = 0
      BY <1>1, <3>1
    <3>2. CASE m > 0
      <4>1. m \in 1..m
        BY <2>4, <3>2
      <4>2. QED
        BY <1>1, <2>4, <4>1
    <3>3. QED
      BY <2>4, <3>1, <3>2
  <2>6. n <= m
    <3>1. CASE n = 0
      BY <2>4, <3>1
    <3>2. CASE n > 0
      <4>1. n \in 1..n
        BY <1>1, <3>2
      <4>2. QED
        BY <1>1, <2>4, <4>1
    <3>3. QED
      BY <1>1, <3>1, <3>2
  <2>7. QED
    BY <1>1, <2>4, <2>5, <2>6 DEF m
<1>4. order \in Injection(1..n, S)
  BY <1>2 DEF Injection, IsInjective
<1>5. IsFiniteSet(1..n) /\ Cardinality(1..n) = n
  BY <1>1, FS_Interval
<1>6. order \in Surjection(1..n, S)
  BY <1>4, <1>5, FS_Injection DEF n
<1>7. QED
  BY <1>1, <1>2, <1>3, <1>6 DEF Surjection

LEMMA SendsOK ==
  ASSUME NEW S, NEW n \in Nat, NEW f, DOMAIN f = 1..n, f = [i \in 1..n |-> f[i]],
         \A i \in 1..n : f[i] \in S
  PROVE  f \in Seq(S) /\ Len(f) = n
<1>1. f \in [1..n -> S]
  OBVIOUS
<1>2. f \in Seq(S)
  BY <1>1, SeqDef
<1>3. DOMAIN f = 1..Len(f) /\ Len(f) \in Nat
  BY <1>2, LenProperties
<1>4. QED
  BY <1>2, <1>3

-----------------------------------------------------------------------------
(***************************************************************************)
(* Every step keeps them.                                                  *)
(***************************************************************************)
TypedQueues ==
  /\ toDb \in Seq(Messages) /\ fromDb \in Seq(Messages)
  /\ toCache \in [Conns -> Seq(Messages)] /\ toWs \in [Conns -> Seq(Messages)]

USE DEF cacheVars, dbVars, linkVars, worldVars

LEMMA InitBase == Init => Base
<1> SUFFICES ASSUME Init PROVE Base
  OBVIOUS
<1>1. QueuesOK /\ LinksOK
  BY EmptySeq DEF Init, QueuesOK, LinksOK, Running
<1>2. TypeOK
  <2>0. TypedQueues
    BY <1>1, AllMessages DEF QueuesOK, TypedQueues
  <2>1. {0, 1} \subseteq Versions
    BY ConstantsAssumption DEF Versions
  <2>2. DOMAIN playerInfo = {}
    BY DEF Init
  <2>3. /\ database \in [Accounts -> Versions] /\ wsSaved \in [Accounts -> Versions]
        /\ quitSaved \in [Accounts -> Versions]
        /\ player \in [Accounts -> {"out", "asked", "in"}]
        /\ wsSock \in [Conns -> {"none", "backlog", "open", "closed", "deleted"}]
    BY <2>1 DEF Init
  <2>4. /\ runs \in 1..MaxRuns /\ dbConns \in 0..MaxDbConns /\ wsConns \in 0..MaxWsConns
        /\ saves \in 0..MaxSaves /\ gCache \in 0..wsConns /\ gCache = 0
    BY ConstantsAssumption DEF Init
  <2>5. /\ process = "running" /\ loadFinish = FALSE /\ redisOk \in BOOLEAN
        /\ dbSock = "closed" /\ loadAsked = FALSE /\ wsUp = FALSE /\ wsQuit = FALSE
        /\ toDb = <<>> /\ fromDb = <<>>
    BY DEF Init
  <2>6. QED
    BY <2>0, <2>2, <2>3, <2>4, <2>5 DEF TypedQueues, TypeOK, Running
<1>3. QED
  BY <1>1, <1>2 DEF Base

LEMMA DbConnectionBase ==
  ASSUME Base, DbConnect \/ DbConnectPending \/ DbEstablished \/ DbLost
  PROVE  Base'
<1>1. QueuesOK'
  <2>1. Load \in DbRequests
    BY DEF DbRequests
  <2>2. toDb' \in {toDb, Append(toDb, Load), <<>>} /\ fromDb' \in {fromDb, <<>>}
    BY DEF DbConnect, ConnectedDo, AskLoad, Load, DbConnectPending, DbEstablished, DbLost
  <2>3. UNCHANGED <<toCache, toWs>>
    BY DEF DbConnect, DbConnectPending, DbEstablished, DbLost
  <2>4. toDb \in Seq(DbRequests) /\ fromDb \in Seq(DbAnswers)
    BY DEF Base, QueuesOK
  <2>5. Append(toDb, Load) \in Seq(DbRequests)
    BY <2>1, <2>4, AppendProperties
  <2>6. QED
    BY <2>2, <2>3, <2>4, <2>5, EmptySeq DEF Base, QueuesOK
<1>2. LinksOK'
  BY DEF Base, LinksOK, Running, DbConnect, DbConnectPending, DbEstablished, DbLost
<1>3. TypeOK'
  <2>0. TypedQueues'
    BY <1>1, AllMessages DEF QueuesOK, TypedQueues
  <2>1. CASE DbConnect
    BY <2>0, <2>1, ConstantsAssumption
       DEF Base, TypeOK, TypedQueues, DbConnect, ConnectedDo, AskLoad, CanConnect, Running
  <2>2. CASE DbConnectPending
    BY <2>0, <2>2, ConstantsAssumption
       DEF Base, TypeOK, TypedQueues, DbConnectPending, CanConnect, Running
  <2>3. CASE DbEstablished
    BY <2>0, <2>3, ConstantsAssumption DEF Base, TypeOK, TypedQueues, DbEstablished, Running
  <2>4. CASE DbLost
    BY <2>0, <2>4, ConstantsAssumption DEF Base, TypeOK, TypedQueues, DbLost, Running
  <2>5. QED
    BY <2>1, <2>2, <2>3, <2>4
<1>4. QED
  BY <1>1, <1>2, <1>3 DEF Base

\* Tail of what a queue holds, and what SendToWs appends to.
LEMMA AddSelfCacheOK ==
  ASSUME TypeOK, NEW acc \in Accounts, NEW ver \in Versions, AddSelfCache(acc, ver)
  PROVE  /\ DOMAIN playerInfo' \subseteq Accounts
         /\ \A a \in DOMAIN playerInfo' : playerInfo'[a] \in Versions
         /\ DOMAIN playerInfo \subseteq DOMAIN playerInfo'
         /\ \A a \in DOMAIN playerInfo : a # acc => playerInfo'[a] = playerInfo[a]
         /\ redisOk => acc \in DOMAIN playerInfo' /\ playerInfo'[acc] = ver
<1>1. CASE redisOk
  <2>1. playerInfo' = Hset(acc, ver)
    BY <1>1 DEF AddSelfCache
  <2>2. QED
    BY <2>1 DEF TypeOK, Hset
<1>2. CASE ~redisOk
  BY <1>2 DEF TypeOK, AddSelfCache
<1>3. QED
  BY <1>1, <1>2

LEMMA HandleDbCacheBase ==
  ASSUME Base, HandleDbCache
  PROVE  Base'
<1> DEFINE m == Head(fromDb)
           answer == Msg("REDIS_WS_LOADPLAYERINFO", m.acc, m.ver, TRUE)
<1>1. /\ m \in DbAnswers /\ m \in Messages /\ m.acc \in Accounts /\ m.ver \in Versions
      /\ Tail(fromDb) \in Seq(DbAnswers)
  <2>1. fromDb \in Seq(DbAnswers) /\ fromDb # <<>> /\ m.type = "DB_2_REDIS_ALLPLAYERINFO"
    BY DEF Base, QueuesOK, HandleDbCache, FromDb
  <2>2. m \in DbAnswers /\ Tail(fromDb) \in Seq(DbAnswers)
    BY <2>1, HeadTailProperties
  <2>3. QED
    BY <2>1, <2>2, DbAnswerKinds, MessageFields
<1>2. answer \in WsAnswers
  BY <1>1 DEF WsAnswers, Of, Messages, MsgTypes
<1>3. toWs' \in [Conns -> Seq(WsAnswers)] /\ \A c \in Conns : wsSock[c] # "open" => toWs'[c] = toWs[c]
  <2>1. toWs \in [Conns -> Seq(WsAnswers)]
    BY DEF Base, QueuesOK
  <2>2. CASE toWs' = toWs
    BY <2>1, <2>2
  <2>3. CASE /\ gCache # 0 /\ wsSock[gCache] = "open"
             /\ toWs' = [toWs EXCEPT ![gCache] = Append(@, answer)]
    <3>1. gCache \in Conns
      BY <2>3, ConstantsAssumption DEF Base, TypeOK, Conns
    <3>2. Append(toWs[gCache], answer) \in Seq(WsAnswers)
      BY <1>2, <2>1, <3>1, AppendProperties
    <3>3. QED
      BY <2>1, <2>3, <3>1, <3>2
  <2>4. QED
    BY <2>2, <2>3 DEF HandleDbCache, SendToWs
<1>4. QueuesOK'
  BY <1>1, <1>3 DEF Base, QueuesOK, HandleDbCache
<1>5. LinksOK'
  BY <1>3 DEF Base, LinksOK, Running, HandleDbCache
<1>6. TypeOK'
  <2>0. TypedQueues'
    BY <1>4, AllMessages DEF QueuesOK, TypedQueues
  <2>1. AddSelfCache(m.acc, m.ver)
    BY DEF HandleDbCache
  <2>2. /\ DOMAIN playerInfo' \subseteq Accounts
        /\ \A a \in DOMAIN playerInfo' : playerInfo'[a] \in Versions
    BY <1>1, <2>1, AddSelfCacheOK DEF Base
  <2>3. dbSock # "closed"
    BY DEF Base, TypeOK, HandleDbCache, FromDb
  <2>4. QED
    BY <2>0, <2>2, <2>3, ConstantsAssumption DEF Base, TypeOK, TypedQueues, HandleDbCache, Running
<1>7. QED
  BY <1>4, <1>5, <1>6 DEF Base

LEMMA HandleDbLoadFinishBase ==
  ASSUME Base, HandleDbLoadFinish
  PROVE  Base'
<1>1. Tail(fromDb) \in Seq(DbAnswers) /\ dbSock # "closed"
  BY HeadTailProperties DEF Base, TypeOK, QueuesOK, HandleDbLoadFinish, FromDb
<1>2. QueuesOK'
  BY <1>1 DEF Base, QueuesOK, HandleDbLoadFinish
<1>3. LinksOK'
  BY DEF Base, LinksOK, Running, HandleDbLoadFinish
<1>4. TypeOK'
  <2>0. TypedQueues'
    BY <1>2, AllMessages DEF QueuesOK, TypedQueues
  <2>1. QED
    BY <1>1, <2>0, ConstantsAssumption DEF Base, TypeOK, TypedQueues, HandleDbLoadFinish, Running
<1>5. QED
  BY <1>2, <1>3, <1>4 DEF Base

LEMMA EndProcessBase ==
  ASSUME Base, NEW how \in {"exited", "crashed"}, EndProcess(how)
  PROVE  Base'
<1>1. QueuesOK'
  BY EmptySeq DEF Base, QueuesOK, EndProcess
<1>2. wsSock' \in [Conns -> {"none", "deleted"}]
  BY DEF EndProcess
<1>3. LinksOK'
  BY <1>2 DEF Base, TypeOK, LinksOK, Running, EndProcess
<1>4. TypeOK'
  <2>0. TypedQueues'
    BY <1>1, AllMessages DEF QueuesOK, TypedQueues
  <2>1. 0 \in 0..wsConns
    BY ConstantsAssumption DEF Base, TypeOK
  <2>2. QED
    BY <2>0, <1>2, <2>1, ConstantsAssumption DEF Base, TypeOK, TypedQueues, EndProcess, Running
<1>5. QED
  BY <1>1, <1>3, <1>4 DEF Base

LEMMA NodeBase ==
  ASSUME Base, NEW c \in Conns, Accept(c) \/ CloseNode(c) \/ DeleteNode(c)
  PROVE  Base'
<1>0. wsConns \in 0..MaxWsConns /\ MaxWsConns \in Nat /\ c \in 1..wsConns
  <2>1. wsSock[c] # "none"
    BY DEF Accept, CloseNode, DeleteNode
  <2>2. QED
    BY <2>1, ConstantsAssumption DEF Base, TypeOK, LinksOK, Conns
<1>1. QueuesOK'
  BY EmptySeq DEF Base, QueuesOK, Accept, CloseNode, DeleteNode
<1>2. LinksOK'
  <2>1. CASE Accept(c)
    BY <1>0, <2>1 DEF Base, TypeOK, LinksOK, Running, Accept
  <2>2. CASE CloseNode(c)
    BY <1>0, <2>2 DEF Base, TypeOK, QueuesOK, LinksOK, Running, CloseNode
  <2>3. CASE DeleteNode(c)
    BY <1>0, <2>3 DEF Base, TypeOK, LinksOK, Running, DeleteNode
  <2>4. QED
    BY <2>1, <2>2, <2>3
<1>3. TypeOK'
  <2>0. TypedQueues'
    BY <1>1, AllMessages DEF QueuesOK, TypedQueues
  <2>1. CASE Accept(c)
    BY <1>0, <2>0, <2>1, ConstantsAssumption DEF Base, TypeOK, TypedQueues, Running, Accept
  <2>2. CASE CloseNode(c)
    BY <1>0, <2>0, <2>2, ConstantsAssumption DEF Base, TypeOK, TypedQueues, Running, CloseNode
  <2>3. CASE DeleteNode(c)
    BY <1>0, <2>0, <2>3, ConstantsAssumption DEF Base, TypeOK, TypedQueues, Running, DeleteNode
  <2>4. QED
    BY <2>1, <2>2, <2>3
<1>4. QED
  BY <1>1, <1>2, <1>3 DEF Base

LEMMA Served ==
  ASSUME Base, NEW c \in Conns, HasRequest(c), Taken(c)
  PROVE  /\ Head(toCache[c]) \in WsRequests /\ Tail(toCache[c]) \in Seq(WsRequests)
         /\ toCache' = [toCache EXCEPT ![c] = Tail(toCache[c])]
         /\ toCache' \in [Conns -> Seq(WsRequests)]
         /\ \A d \in Conns : toCache[d] = <<>> => toCache'[d] = <<>>
         /\ wsConns \in 1..MaxWsConns /\ c \in 1..wsConns
<1>1. toCache[c] \in Seq(WsRequests) /\ toCache[c] # <<>> /\ wsSock[c] # "none"
  BY DEF Base, QueuesOK, HasRequest
<1>2. Head(toCache[c]) \in WsRequests /\ Tail(toCache[c]) \in Seq(WsRequests)
  BY <1>1, HeadTailProperties
<1>3. toCache' = [toCache EXCEPT ![c] = Tail(toCache[c])]
  BY DEF Taken
<1>4. toCache' \in [Conns -> Seq(WsRequests)]
  BY <1>2, <1>3 DEF Base, QueuesOK
<1>5. \A d \in Conns : toCache[d] = <<>> => toCache'[d] = <<>>
  BY <1>1, <1>3 DEF Base, QueuesOK
<1>6. wsConns \in 1..MaxWsConns /\ c \in 1..wsConns
  BY <1>1, ConstantsAssumption DEF Base, TypeOK, LinksOK, Conns
<1>7. QED
  BY <1>1, <1>2, <1>3, <1>4, <1>5, <1>6

LEMMA DropEarlyBase ==
  ASSUME Base, NEW c \in Conns, DropEarly(c)
  PROVE  Base'
<1>1. toCache' \in [Conns -> Seq(WsRequests)] /\ \A d \in Conns : toCache[d] = <<>> => toCache'[d] = <<>>
  BY Served DEF DropEarly
<1>2. QueuesOK'
  BY <1>1 DEF Base, QueuesOK, DropEarly
<1>3. LinksOK'
  BY <1>1 DEF Base, LinksOK, Running, DropEarly
<1>4. TypeOK'
  <2>0. TypedQueues'
    BY <1>2, AllMessages DEF QueuesOK, TypedQueues
  <2>1. QED
    BY <2>0 DEF Base, TypeOK, TypedQueues, DropEarly, Running
<1>5. QED
  BY <1>2, <1>3, <1>4 DEF Base

\* What a login is answered with, or what is asked for it.
LEMMA LoadPlayerInfoSends ==
  ASSUME Base, NEW c \in Conns, LoadPlayerInfo(c)
  PROVE  LET acc == Head(toCache[c]).acc
             answer == Msg("REDIS_WS_LOADPLAYERINFO", acc, playerInfo[acc], TRUE)
             one == Msg("REDIS_DB_LOADONEPLAYERINFO", acc, 0, TRUE)
         IN /\ acc \in Accounts /\ one \in DbRequests
            /\ Cached(acc) => /\ answer \in WsAnswers /\ toDb' = toDb
                             /\ \/ toWs' = toWs
                                \/ /\ gCache \in Conns /\ wsSock[gCache] = "open"
                                   /\ toWs' = [toWs EXCEPT ![gCache] = Append(@, answer)]
            /\ ~Cached(acc) => /\ toWs' = toWs
                              /\ \/ toDb' = toDb
                                 \/ dbSock # "closed" /\ toDb' = Append(toDb, one)
<1> DEFINE acc == Head(toCache[c]).acc
           answer == Msg("REDIS_WS_LOADPLAYERINFO", acc, playerInfo[acc], TRUE)
           one == Msg("REDIS_DB_LOADONEPLAYERINFO", acc, 0, TRUE)
<1>1. acc \in Accounts
  <2>1. /\ Head(toCache[c]) \in WsRequests
        /\ Head(toCache[c]).type = "WS_REDIS_LOADPLAYERINFO"
    BY Served DEF LoadPlayerInfo, Request
  <2>2. QED
    BY <2>1, WsRequestKinds
<1> HIDE DEF acc
<1>2. one \in DbRequests
  BY <1>1, ZeroVersion DEF DbRequests, Of, Messages, MsgTypes
<1>3. Cached(acc) => answer \in WsAnswers
  BY <1>1 DEF Cached, Base, TypeOK, WsAnswers, Of, Messages, MsgTypes
<1>4. /\ Cached(acc) => SendToWs(answer) /\ toDb' = toDb
      /\ ~Cached(acc) => SendToDb(<<one>>) /\ toWs' = toWs
  BY DEF LoadPlayerInfo, acc
<1> HIDE DEF one, answer
<1>5. Cached(acc) => \/ toWs' = toWs
                     \/ /\ gCache \in Conns /\ wsSock[gCache] = "open"
                        /\ toWs' = [toWs EXCEPT ![gCache] = Append(@, answer)]
  BY <1>4, ConstantsAssumption DEF SendToWs, Base, TypeOK, Conns
<1>6. ~Cached(acc) => toDb' = toDb \/ (dbSock # "closed" /\ toDb' = Append(toDb, one))
  <2>1. toDb \o <<one>> = Append(toDb, one)
    BY <1>2, AppendIsConcat DEF Base, QueuesOK
  <2>2. QED
    BY <1>4, <2>1 DEF SendToDb
<1>7. QED
  BY <1>1, <1>2, <1>3, <1>4, <1>5, <1>6 DEF acc, one, answer

LEMMA LoadPlayerInfoBase ==
  ASSUME Base, NEW c \in Conns, LoadPlayerInfo(c)
  PROVE  Base'
<1> DEFINE acc == Head(toCache[c]).acc
           answer == Msg("REDIS_WS_LOADPLAYERINFO", acc, playerInfo[acc], TRUE)
           one == Msg("REDIS_DB_LOADONEPLAYERINFO", acc, 0, TRUE)
<1>1. toCache' \in [Conns -> Seq(WsRequests)] /\ \A d \in Conns : toCache[d] = <<>> => toCache'[d] = <<>>
  BY Served DEF LoadPlayerInfo, Request
<1>2. /\ toDb' = toDb \/ (dbSock # "closed" /\ toDb' = Append(toDb, one))
      /\ one \in DbRequests
  BY LoadPlayerInfoSends
<1>3. \/ toWs' = toWs
      \/ /\ gCache \in Conns /\ wsSock[gCache] = "open" /\ answer \in WsAnswers
         /\ toWs' = [toWs EXCEPT ![gCache] = Append(@, answer)]
  BY LoadPlayerInfoSends
<1> HIDE DEF one, answer, acc
<1>4. QueuesOK'
  <2>1. toDb' \in Seq(DbRequests)
    <3>1. toDb \in Seq(DbRequests)
      BY DEF Base, QueuesOK
    <3>2. Append(toDb, one) \in Seq(DbRequests)
      BY <1>2, <3>1, AppendProperties
    <3>3. QED
      BY <1>2, <3>1, <3>2
  <2>2. toWs' \in [Conns -> Seq(WsAnswers)]
    <3>1. toWs \in [Conns -> Seq(WsAnswers)]
      BY DEF Base, QueuesOK
    <3>2. CASE /\ gCache \in Conns /\ answer \in WsAnswers
               /\ toWs' = [toWs EXCEPT ![gCache] = Append(@, answer)]
      <4>1. Append(toWs[gCache], answer) \in Seq(WsAnswers)
        BY <3>1, <3>2, AppendProperties
      <4>2. QED
        BY <3>1, <3>2, <4>1
    <3>3. QED
      BY <1>3, <3>1, <3>2
  <2>3. QED
    BY <1>1, <2>1, <2>2 DEF Base, QueuesOK, LoadPlayerInfo
<1>5. LinksOK'
  <2>1. \A d \in Conns : wsSock[d] = "none" => toWs'[d] = toWs[d]
    BY <1>3 DEF Base, QueuesOK
  <2>2. QED
    BY <1>1, <2>1 DEF Base, LinksOK, Running, LoadPlayerInfo
<1>6. TypeOK'
  <2>0. TypedQueues'
    BY <1>4, AllMessages DEF QueuesOK, TypedQueues
  <2>1. dbSock = "closed" => toDb' = <<>>
    BY <1>2 DEF Base, TypeOK
  <2>2. QED
    BY <2>0, <2>1 DEF Base, TypeOK, TypedQueues, LoadPlayerInfo, Running
<1>7. QED
  BY <1>4, <1>5, <1>6 DEF Base

LEMMA SavePlayerInfoBase ==
  ASSUME Base, NEW c \in Conns, SavePlayerInfo(c)
  PROVE  Base'
<1> DEFINE m == Head(toCache[c])
<1>1. /\ toCache' \in [Conns -> Seq(WsRequests)]
      /\ \A d \in Conns : toCache[d] = <<>> => toCache'[d] = <<>>
      /\ m \in WsRequests /\ m.type = "WS_REDIS_SAVEPLAYERINFO"
  BY Served DEF SavePlayerInfo, Request
<1>2. m.acc \in Accounts /\ m.ver \in Versions
  BY <1>1, WsRequestKinds, MessageFields
<1>3. QueuesOK'
  BY <1>1 DEF Base, QueuesOK, SavePlayerInfo
<1>4. LinksOK'
  BY <1>1 DEF Base, LinksOK, Running, SavePlayerInfo
<1>5. TypeOK'
  <2>0. TypedQueues'
    BY <1>3, AllMessages DEF QueuesOK, TypedQueues
  <2>1. /\ DOMAIN playerInfo' \subseteq Accounts
        /\ \A a \in DOMAIN playerInfo' : playerInfo'[a] \in Versions
    BY <1>2, AddSelfCacheOK DEF Base, SavePlayerInfo
  <2>2. QED
    BY <2>0, <2>1 DEF Base, TypeOK, TypedQueues, SavePlayerInfo, Running
<1>6. QED
  BY <1>3, <1>4, <1>5 DEF Base

LEMMA SaveAllCacheToDbSends ==
  ASSUME Base, NEW order \in SetToSeqs(DOMAIN playerInfo)
  PROVE  /\ SaveAll(order) \in Seq(DbRequests)
         /\ Len(order) \in Nat /\ Len(SaveAll(order)) = Len(order) + 1
         /\ SaveAll(order)[Len(order) + 1] = DbQuit
         /\ \A i \in 1..Len(order) :
              /\ order[i] \in DOMAIN playerInfo
              /\ SaveAll(order)[i] = Msg("REDIS_2_DB_SAVEPLAYERINFO", order[i],
                                         playerInfo[order[i]], FALSE)
         /\ \A a \in DOMAIN playerInfo : \E i \in 1..Len(order) : order[i] = a
<1> DEFINE n == Len(order)
           q == [i \in 1..n |-> Msg("REDIS_2_DB_SAVEPLAYERINFO", order[i],
                                    playerInfo[order[i]], FALSE)]
           r == <<DbQuit>>
<1>1. IsFiniteSet(DOMAIN playerInfo)
  BY ConstantsAssumption, FS_Subset DEF Base, TypeOK
<1>2. /\ n \in Nat
      /\ \A i \in 1..n : order[i] \in DOMAIN playerInfo
      /\ \A a \in DOMAIN playerInfo : \E i \in 1..n : order[i] = a
  BY <1>1, OrderFacts
<1> HIDE DEF n
<1>3. q \in Seq(DbRequests) /\ Len(q) = n
  <2>1. ASSUME NEW i \in 1..n PROVE q[i] \in DbRequests
    <3>1. order[i] \in Accounts /\ playerInfo[order[i]] \in Versions
      BY <1>2 DEF Base, TypeOK
    <3>2. QED
      BY <3>1 DEF DbRequests, Of, Messages, MsgTypes
  <2>2. DOMAIN q = 1..n /\ q = [i \in 1..n |-> q[i]]
    OBVIOUS
  <2> HIDE DEF q
  <2>3. QED
    BY <1>2, <2>1, <2>2, SendsOK
<1>4. r \in Seq(DbRequests) /\ Len(r) = 1 /\ r[1] = DbQuit
  <2>1. DbQuit \in DbRequests
    BY DEF DbRequests
  <2>2. QED
    BY <2>1
<1>5. SaveAll(order) = q \o r
  BY DEF SaveAll, DbQuit, n
<1>6. \A i \in 1..n : q[i] = Msg("REDIS_2_DB_SAVEPLAYERINFO", order[i],
                                 playerInfo[order[i]], FALSE)
  OBVIOUS
<1> HIDE DEF q, r
<1>7. /\ q \o r \in Seq(DbRequests) /\ Len(q \o r) = Len(q) + Len(r)
      /\ \A i \in 1..Len(q) + Len(r) :
           (q \o r)[i] = IF i <= Len(q) THEN q[i] ELSE r[i - Len(q)]
  BY <1>3, <1>4, ConcatProperties
<1>8. /\ Len(q \o r) = n + 1 /\ (q \o r)[n + 1] = DbQuit
      /\ \A i \in 1..n : (q \o r)[i] = q[i]
  BY <1>2, <1>3, <1>4, <1>7
<1>9. QED
  BY <1>2, <1>5, <1>6, <1>7, <1>8 DEF n

LEMMA SaveAllCacheToDbBase ==
  ASSUME Base, NEW c \in Conns, SaveAllCacheToDb(c)
  PROVE  Base'
<1>1. toCache' \in [Conns -> Seq(WsRequests)] /\ \A d \in Conns : toCache[d] = <<>> => toCache'[d] = <<>>
  BY Served DEF SaveAllCacheToDb, Request
<1>2. PICK order \in SetToSeqs(DOMAIN playerInfo) : SendToDb(SaveAll(order))
  BY DEF SaveAllCacheToDb
<1>3. toDb' \in Seq(DbRequests) /\ (dbSock = "closed" => toDb' = toDb)
  <2>1. toDb \in Seq(DbRequests) /\ SaveAll(order) \in Seq(DbRequests)
    BY SaveAllCacheToDbSends DEF Base, QueuesOK
  <2>2. toDb \o SaveAll(order) \in Seq(DbRequests)
    BY <2>1, ConcatProperties
  <2>3. QED
    BY <1>2, <2>1, <2>2 DEF SendToDb
<1>4. QueuesOK'
  BY <1>1, <1>3 DEF Base, QueuesOK, SaveAllCacheToDb
<1>5. LinksOK'
  BY <1>1 DEF Base, LinksOK, Running, SaveAllCacheToDb
<1>6. TypeOK'
  <2>0. TypedQueues'
    BY <1>4, AllMessages DEF QueuesOK, TypedQueues
  <2>1. QED
    BY <2>0, <1>3 DEF Base, TypeOK, TypedQueues, SaveAllCacheToDb, Running
<1>7. QED
  BY <1>4, <1>5, <1>6 DEF Base

LEMMA RedisLostRestartBase ==
  ASSUME Base, RedisLost \/ Restart
  PROVE  Base'
<1>1. QueuesOK'
  BY DEF Base, QueuesOK, RedisLost, Restart
<1>2. LinksOK'
  BY DEF Base, LinksOK, Running, RedisLost, Restart
<1>3. TypeOK'
  <2>0. TypedQueues'
    BY <1>1, AllMessages DEF QueuesOK, TypedQueues
  <2>1. CASE RedisLost
    BY <2>0, <2>1 DEF Base, TypeOK, TypedQueues, RedisLost, Running
  <2>2. CASE Restart
    <3>1. runs' \in 1..MaxRuns /\ process' = "running" /\ dbSock = "closed"
      BY <2>2, ConstantsAssumption DEF Base, TypeOK, Restart, Running
    <3>2. QED
      BY <2>0, <2>2, <3>1 DEF Base, TypeOK, TypedQueues, Restart, Running
  <2>3. QED
    BY <2>1, <2>2
<1>4. QED
  BY <1>1, <1>2, <1>3 DEF Base

\* A record of a load, as it is in the database.
Current(m) == m \in LoadRecords /\ m.acc \in Accounts /\ m.ver = database[m.acc]

LEMMA RecordsOK ==
  ASSUME Base, NEW order \in SetToSeqs({a \in Accounts : database[a] # 0})
  PROVE  /\ Records(order) \in Seq(DbAnswers)
         /\ \A i \in 1..Len(Records(order)) : Current(Records(order)[i])
<1> DEFINE n == Len(order)
           q == Records(order)
           S == {a \in Accounts : database[a] # 0}
<1>1. IsFiniteSet(S)
  BY ConstantsAssumption, FS_Subset
<1>2. n \in Nat /\ \A i \in 1..n : order[i] \in Accounts
  BY <1>1, OrderFacts
<1> HIDE DEF n
<1>3. ASSUME NEW i \in 1..n
      PROVE  q[i] \in DbAnswers /\ Current(q[i])
  <2>1. order[i] \in Accounts /\ database[order[i]] \in Versions
    BY <1>2 DEF Base, TypeOK
  <2>2. q[i] = Msg("DB_2_REDIS_ALLPLAYERINFO", order[i], database[order[i]], FALSE)
    BY DEF Records, n
  <2>3. QED
    BY <2>1, <2>2 DEF DbAnswers, Of, Messages, MsgTypes, LoadRecords, Current
<1>4. DOMAIN q = 1..n /\ q = [i \in 1..n |-> q[i]]
  BY DEF Records, n
<1> HIDE DEF q
<1>5. q \in Seq(DbAnswers) /\ Len(q) = n
  BY <1>2, <1>3, <1>4, SendsOK
<1>6. QED
  BY <1>3, <1>5 DEF q

\* What the database does with its next message.
LEMMA DbServeFacts ==
  ASSUME Base, DbServe
  PROVE  LET m == Head(toDb) IN
         /\ m \in DbRequests /\ toDb' = Tail(toDb) /\ toDb' \in Seq(DbRequests)
         /\ m.ver \in Versions
         /\ \/ /\ m.type = "REDIS_2_DB_ALLPLAYERINFO"
               /\ \E r \in Seq(DbAnswers) :
                    /\ \A i \in 1..Len(r) : Current(r[i])
                    /\ fromDb' = Append(fromDb \o r, Finish)
               /\ database' = database
            \/ /\ m.type = "REDIS_DB_LOADONEPLAYERINFO" /\ m.acc \in Accounts
               /\ LET answer == Msg("DB_2_REDIS_ALLPLAYERINFO", m.acc,
                                    database[m.acc], TRUE)
                  IN answer \in DbAnswers /\ fromDb' = Append(fromDb, answer)
               /\ database' = database
            \/ /\ m.type = "REDIS_2_DB_SAVEPLAYERINFO" /\ m.acc \in Accounts
               /\ database' = [database EXCEPT ![m.acc] = m.ver]
               /\ fromDb' = fromDb
            \/ /\ m.type = "REDIS_DB_QUIT"
               /\ fromDb' = Append(fromDb, QuitAnswer)
               /\ database' = database
<1> DEFINE m == Head(toDb)
<1>1. m \in DbRequests /\ Tail(toDb) \in Seq(DbRequests) /\ toDb' = Tail(toDb)
  <2>1. toDb \in Seq(DbRequests) /\ toDb # <<>>
    BY DEF Base, QueuesOK, DbServe
  <2>2. QED
    BY <2>1, HeadTailProperties DEF DbServe
<1>2. m.ver \in Versions
  BY <1>1, DbRequestKinds, MessageFields
<1>3. \A order : Records(order) \in Seq(DbAnswers) =>
        fromDb \o Records(order) \o <<Finish>> = Append(fromDb \o Records(order), Finish)
  <2>1. SUFFICES ASSUME NEW r \in Seq(DbAnswers)
                 PROVE  fromDb \o r \o <<Finish>> = Append(fromDb \o r, Finish)
    OBVIOUS
  <2>2. fromDb \o r \in Seq(DbAnswers)
    BY ConcatProperties DEF Base, QueuesOK
  <2>3. Finish \in DbAnswers
    BY DEF DbAnswers
  <2>4. QED
    BY <2>2, <2>3, AppendIsConcat
<1>4. CASE m.type = "REDIS_2_DB_ALLPLAYERINFO"
  <2>1. PICK order \in SetToSeqs({a \in Accounts : database[a] # 0}) :
          fromDb' = fromDb \o Records(order) \o <<Finish>>
    BY <1>4 DEF DbServe, Finish
  <2>2. /\ Records(order) \in Seq(DbAnswers)
        /\ \A i \in 1..Len(Records(order)) : Current(Records(order)[i])
    BY RecordsOK
  <2>3. database' = database
    BY <1>4 DEF DbServe
  <2>4. QED
    BY <1>1, <1>2, <1>3, <1>4, <2>1, <2>2, <2>3
<1>5. CASE m.type = "REDIS_DB_LOADONEPLAYERINFO"
  <2>1. m.acc \in Accounts
    BY <1>1, <1>5, DbRequestKinds
  <2>2. database[m.acc] \in Versions
    BY <2>1 DEF Base, TypeOK
  <2>3. Msg("DB_2_REDIS_ALLPLAYERINFO", m.acc, database[m.acc], TRUE) \in DbAnswers
    BY <2>1, <2>2 DEF DbAnswers, Of, Messages, MsgTypes
  <2>4. QED
    BY <1>1, <1>2, <1>5, <2>1, <2>3 DEF DbServe
<1>6. CASE m.type = "REDIS_2_DB_SAVEPLAYERINFO"
  BY <1>1, <1>2, <1>6, DbRequestKinds DEF DbServe
<1>7. CASE m.type = "REDIS_DB_QUIT"
  BY <1>1, <1>2, <1>7 DEF DbServe, QuitAnswer
<1>8. QED
  BY <1>1, <1>4, <1>5, <1>6, <1>7, DbRequestKinds

LEMMA DbServeBase ==
  ASSUME Base, DbServe
  PROVE  Base'
<1> DEFINE m == Head(toDb)
<1>1. /\ m \in DbRequests /\ toDb' = Tail(toDb) /\ toDb' \in Seq(DbRequests)
      /\ m.ver \in Versions
  BY DbServeFacts
<1>2. fromDb \in Seq(DbAnswers) /\ Finish \in DbAnswers /\ QuitAnswer \in DbAnswers
  BY DEF Base, QueuesOK, DbAnswers
<1>3. fromDb' \in Seq(DbAnswers)
  <2>1. \A answer \in DbAnswers : Append(fromDb, answer) \in Seq(DbAnswers)
    BY <1>2, AppendProperties
  <2>2. ASSUME NEW r \in Seq(DbAnswers)
        PROVE  Append(fromDb \o r, Finish) \in Seq(DbAnswers)
    <3>1. fromDb \o r \in Seq(DbAnswers)
      BY <1>2, ConcatProperties
    <3>2. QED
      BY <1>2, <3>1, AppendProperties
  <2>3. QED
    BY <1>2, <2>1, <2>2, DbServeFacts
<1>4. database' \in [Accounts -> Versions]
  <2>1. \/ database' = database
        \/ m.acc \in Accounts /\ database' = [database EXCEPT ![m.acc] = m.ver]
    BY DbServeFacts
  <2>2. QED
    BY <1>1, <2>1 DEF Base, TypeOK
<1>5. QueuesOK'
  BY <1>1, <1>3 DEF Base, QueuesOK, DbServe
<1>6. LinksOK'
  BY DEF Base, LinksOK, Running, DbServe
<1>7. TypeOK'
  <2>0. TypedQueues'
    BY <1>5, AllMessages DEF QueuesOK, TypedQueues
  <2>1. QED
    BY <2>0, <1>4 DEF Base, TypeOK, TypedQueues, DbServe, Running
<1>8. QED
  BY <1>5, <1>6, <1>7 DEF Base

LEMMA WsConnectDropBase ==
  ASSUME Base, WsConnect \/ WsDrop
  PROVE  Base'
<1>1. QueuesOK'
  <2>1. CASE WsConnect
    BY <2>1 DEF Base, QueuesOK, WsConnect
  <2>2. CASE WsDrop
    BY <2>2, EmptySeq DEF Base, QueuesOK, WsDrop
  <2>3. QED
    BY <2>1, <2>2
<1>2. LinksOK'
  <2>1. CASE WsConnect
    <3>1. /\ wsConns \in Nat /\ wsConns' = wsConns + 1 /\ process' = process
          /\ process = "running" /\ toCache' = toCache /\ toWs' = toWs
          /\ wsSock' = [wsSock EXCEPT ![wsConns + 1] = "backlog"]
          /\ wsSock \in [Conns -> {"none", "backlog", "open", "closed", "deleted"}]
      BY <2>1, ConstantsAssumption DEF Base, TypeOK, Running, WsConnect
    <3>2. \A c \in Conns : /\ c \in Nat
                           /\ c # wsConns + 1 => wsSock'[c] = wsSock[c]
                           /\ c = wsConns + 1 => wsSock'[c] = "backlog"
      BY <3>1, ConstantsAssumption DEF Conns
    <3>3. \A c \in Conns : c > wsConns' => c > wsConns /\ c # wsConns + 1
      BY <3>1, <3>2
    <3>4. QED
      BY <3>1, <3>2, <3>3 DEF Base, LinksOK, Running
  <2>2. CASE WsDrop
    BY <2>2 DEF Base, QueuesOK, LinksOK, Running, WsDrop
  <2>3. QED
    BY <2>1, <2>2
<1>3. TypeOK'
  <2>0. TypedQueues'
    BY <1>1, AllMessages DEF QueuesOK, TypedQueues
  <2>1. CASE WsConnect
    <3>1. /\ wsConns' \in 0..MaxWsConns /\ wsConns + 1 \in Conns
          /\ gCache' \in 0..wsConns' /\ gCache' # wsConns + 1
      BY <2>1, ConstantsAssumption DEF Base, TypeOK, WsConnect, Conns
    <3>2. /\ wsSock' = [wsSock EXCEPT ![wsConns + 1] = "backlog"]
          /\ wsSock' \in [Conns -> {"none", "backlog", "open", "closed", "deleted"}]
      BY <2>1, <3>1 DEF Base, TypeOK, WsConnect
    <3>3. gCache' # 0 => wsSock'[gCache'] \notin {"none", "backlog"}
      <4>1. gCache' # 0 => gCache' \in Conns
        BY <3>1, ConstantsAssumption DEF Conns
      <4>2. QED
        BY <2>1, <3>1, <3>2, <4>1 DEF Base, TypeOK, WsConnect
    <3>4. QED
      BY <2>0, <2>1, <3>1, <3>2, <3>3 DEF Base, TypeOK, TypedQueues, Running, WsConnect
  <2>2. CASE WsDrop
    BY <2>0, <2>2 DEF Base, TypeOK, TypedQueues, Running, WsDrop
  <2>3. QED
    BY <2>1, <2>2
<1>4. QED
  BY <1>1, <1>2, <1>3 DEF Base

LEMMA WsSends ==
  ASSUME Base, WsCanSend, NEW msg \in WsRequests, WsSend(msg)
  PROVE  /\ wsConns \in Conns /\ toCache[wsConns] \in Seq(WsRequests)
         /\ wsSock[wsConns] \in {"backlog", "open"}
         /\ toCache' = [toCache EXCEPT ![wsConns] = Append(toCache[wsConns], msg)]
         /\ toCache' \in [Conns -> Seq(WsRequests)]
         /\ \A d \in Conns : wsSock[d] \notin {"backlog", "open"} => toCache'[d] = toCache[d]
<1>1. wsConns \in Conns /\ wsSock[wsConns] \in {"backlog", "open"}
  BY ConstantsAssumption DEF Base, TypeOK, LinksOK, WsCanSend, Conns
<1>2. toCache[wsConns] \in Seq(WsRequests)
  BY <1>1 DEF Base, QueuesOK
<1>3. toCache' = [toCache EXCEPT ![wsConns] = Append(toCache[wsConns], msg)]
  BY DEF WsSend
<1>4. Append(toCache[wsConns], msg) \in Seq(WsRequests)
  BY <1>2, AppendProperties
<1>5. toCache' \in [Conns -> Seq(WsRequests)]
  BY <1>3, <1>4 DEF Base, QueuesOK
<1>6. QED
  BY <1>1, <1>2, <1>3, <1>5 DEF Base, QueuesOK

LEMMA WsRequestsOK ==
  ASSUME NEW a \in Accounts, NEW ver \in Versions
  PROVE  /\ Msg("WS_REDIS_LOADPLAYERINFO", a, 0, TRUE) \in WsRequests
         /\ Msg("WS_REDIS_SAVEPLAYERINFO", a, ver, FALSE) \in WsRequests
         /\ Signal("WS_REDIS_QUIT") \in WsRequests
  BY ZeroVersion DEF WsRequests, Of, Messages, MsgTypes, Quit

LEMMA WorldServerBase ==
  ASSUME Base, WsReceive \/ WsQuit \/ (\E a \in Accounts : WsLogin(a) \/ WsSave(a))
  PROVE  Base'
<1>1. CASE WsReceive
  <2>1. wsConns \in Conns
    BY <1>1, ConstantsAssumption DEF Base, TypeOK, LinksOK, WsReceive, Conns
  <2>2. toWs[wsConns] \in Seq(WsAnswers) /\ toWs[wsConns] # <<>>
    BY <1>1, <2>1 DEF Base, QueuesOK, WsReceive
  <2>3. Tail(toWs[wsConns]) \in Seq(WsAnswers)
    BY <2>2, HeadTailProperties
  <2>4. toWs' = [toWs EXCEPT ![wsConns] = Tail(toWs[wsConns])]
    BY <1>1 DEF WsReceive
  <2>5. QueuesOK'
    BY <1>1, <2>1, <2>3, <2>4 DEF Base, QueuesOK, WsReceive
  <2>6. LinksOK'
    <3>1. \A c \in Conns : c > wsConns => toWs'[c] = toWs[c]
      BY <2>4, ConstantsAssumption DEF Base, TypeOK, QueuesOK, Conns
    <3>2. QED
      BY <1>1, <3>1 DEF Base, LinksOK, Running, WsReceive
  <2>7. TypeOK'
    <3>0. TypedQueues'
      BY <2>5, AllMessages DEF QueuesOK, TypedQueues
    <3>1. QED
      BY <3>0, <1>1 DEF Base, TypeOK, TypedQueues, Running, WsReceive
  <2>8. QED
    BY <2>5, <2>6, <2>7 DEF Base
<1>2. CASE WsQuit
  <2>1. /\ toCache' \in [Conns -> Seq(WsRequests)]
        /\ \A d \in Conns : wsSock[d] \notin {"backlog", "open"} => toCache'[d] = toCache[d]
    <3>1. Signal("WS_REDIS_QUIT") \in WsRequests
      BY DEF WsRequests, Quit
    <3>2. QED
      BY <1>2, <3>1, WsSends DEF WsQuit
  <2>2. QueuesOK'
    BY <1>2, <2>1 DEF Base, QueuesOK, WsQuit
  <2>3. LinksOK'
    BY <1>2, <2>1 DEF Base, LinksOK, Running, WsQuit
  <2>4. TypeOK'
    <3>0. TypedQueues'
      BY <2>2, AllMessages DEF QueuesOK, TypedQueues
    <3>1. QED
      BY <3>0, <1>2 DEF Base, TypeOK, TypedQueues, Running, WsQuit
  <2>5. QED
    BY <2>2, <2>3, <2>4 DEF Base
<1>3. ASSUME NEW a \in Accounts, WsLogin(a)
      PROVE  Base'
  <2>1. /\ toCache' \in [Conns -> Seq(WsRequests)]
        /\ \A d \in Conns : wsSock[d] \notin {"backlog", "open"} => toCache'[d] = toCache[d]
    BY <1>3, WsSends, WsRequestsOK, ZeroVersion DEF WsLogin
  <2>2. QueuesOK'
    BY <1>3, <2>1 DEF Base, QueuesOK, WsLogin
  <2>3. LinksOK'
    BY <1>3, <2>1 DEF Base, LinksOK, Running, WsLogin
  <2>4. TypeOK'
    <3>0. TypedQueues'
      BY <2>2, AllMessages DEF QueuesOK, TypedQueues
    <3>1. QED
      BY <3>0, <1>3 DEF Base, TypeOK, TypedQueues, Running, WsLogin
  <2>5. QED
    BY <2>2, <2>3, <2>4 DEF Base
<1>4. ASSUME NEW a \in Accounts, WsSave(a)
      PROVE  Base'
  <2>0. saves + 1 \in 0..MaxSaves /\ saves + 2 \in Versions
    BY <1>4, ConstantsAssumption DEF Base, TypeOK, WsSave, Versions
  <2>1. /\ toCache' \in [Conns -> Seq(WsRequests)]
        /\ \A d \in Conns : wsSock[d] \notin {"backlog", "open"} => toCache'[d] = toCache[d]
    BY <1>4, <2>0, WsSends, WsRequestsOK DEF WsSave
  <2>2. QueuesOK'
    BY <1>4, <2>1 DEF Base, QueuesOK, WsSave
  <2>3. LinksOK'
    BY <1>4, <2>1 DEF Base, LinksOK, Running, WsSave
  <2>4. TypeOK'
    <3>0. TypedQueues'
      BY <2>2, AllMessages DEF QueuesOK, TypedQueues
    <3>1. /\ player' \in [Accounts -> {"out", "asked", "in"}]
          /\ wsSaved' \in [Accounts -> Versions] /\ saves' \in 0..MaxSaves
      BY <1>4, <2>0 DEF Base, TypeOK, WsSave
    <3>2. QED
      BY <3>0, <1>4, <3>1 DEF Base, TypeOK, TypedQueues, Running, WsSave
  <2>5. QED
    BY <2>2, <2>3, <2>4 DEF Base
<1>5. QED
  BY <1>1, <1>2, <1>3, <1>4

LEMMA NextBase == Base /\ [Next]_vars => Base'
<1> SUFFICES ASSUME Base, [Next]_vars PROVE Base'
  OBVIOUS
<1>1. CASE DbConnect \/ DbConnectPending \/ DbEstablished \/ DbLost
  BY <1>1, DbConnectionBase
<1>2. CASE HandleDbCache \/ HandleDbLoadFinish
  BY <1>2, HandleDbCacheBase, HandleDbLoadFinishBase
<1>3. CASE HandleQuit \/ HandlerCrash
  BY <1>3, EndProcessBase DEF HandleQuit, HandlerCrash
<1>4. CASE \E c \in Conns : Accept(c) \/ CloseNode(c) \/ DeleteNode(c)
  BY <1>4, NodeBase
<1>5. CASE \E c \in Conns : \/ DropEarly(c) \/ LoadPlayerInfo(c)
                            \/ SavePlayerInfo(c) \/ SaveAllCacheToDb(c)
  BY <1>5, DropEarlyBase, LoadPlayerInfoBase, SavePlayerInfoBase, SaveAllCacheToDbBase
<1>6. CASE RedisLost \/ Restart
  BY <1>6, RedisLostRestartBase
<1>7. CASE DbServe
  BY <1>7, DbServeBase
<1>8. CASE WsConnect \/ WsDrop
  BY <1>8, WsConnectDropBase
<1>9. CASE WsReceive \/ WsQuit \/ (\E a \in Accounts : WsLogin(a) \/ WsSave(a))
  BY <1>9, WorldServerBase
<1>10. CASE UNCHANGED vars
  BY <1>10 DEF vars, Base, TypeOK, QueuesOK, LinksOK, Running
<1>11. QED
  BY <1>1, <1>2, <1>3, <1>4, <1>5, <1>6, <1>7, <1>8, <1>9, <1>10 DEF Next

\* Of every handler, and of every loss, crash and restart, the types are what
\* it leaves: no message stays queued for a closed database socket or a
\* process that has ended, and gCache is NULL or a connection that was
\* accepted (it may have been deleted).
THEOREM TypesHold == Spec => []TypeOK
<1>1. Base => TypeOK
  BY DEF Base
<1>2. QED
  BY InitBase, NextBase, <1>1, PTL DEF Spec

-----------------------------------------------------------------------------
(***************************************************************************)
(* That the process exits only with every save in the database, and that a *)
(* login reads the last save, as long as the world server has made one     *)
(* connection.                                                             *)
(***************************************************************************)

\* Saves that are not the last, and answers older than it, by its version.
OlderOf(a, last) == {m \in SavesOf(a) : m.ver # last}
StaleSavesOf(a, last) == {m \in DbSavesOf(a) : m.ver < last}
StaleAnswersOf(a, last) == {m \in LoginsOf(a) : m.ver < last}

-----------------------------------------------------------------------------
(***************************************************************************)
(* The inductive invariant, beyond the types.                              *)
(***************************************************************************)

\* Once the load has finished no record of a load is to come: ALLLOADFINISH is
\* the last answer to a load, and a load is asked for once.
LoadOK ==
  /\ Apart(toDb, {Load}, {Load})
  /\ ~Lacks(fromDb, {Finish}) => Lacks(toDb, {Load})
  /\ Apart(fromDb, {Finish}, LoadRecords)
  /\ loadFinish => Lacks(toDb, {Load}) /\ Lacks(fromDb, LoadRecords)

\* The rest is about the first connection of the world server.
Live == Running /\ wsSock[1] \in {"backlog", "open"}

\* A login is at one place, and only while it is asked for; the database is
\* asked for a record, and sends it, only before the account's first save.
OneLogin(L) ==
  /\ Apart(toCache[1], L, L) /\ Apart(toDb, L, L)
  /\ Apart(fromDb, L, L) /\ Apart(toWs[1], L, L)
  /\ ~Lacks(toCache[1], L) => Lacks(toDb, L) /\ Lacks(fromDb, L) /\ Lacks(toWs[1], L)
  /\ ~Lacks(toDb, L) => Lacks(fromDb, L) /\ Lacks(toWs[1], L)
  /\ ~Lacks(fromDb, L) => Lacks(toWs[1], L)
NoLogin(L) ==
  Lacks(toCache[1], L) /\ Lacks(toDb, L) /\ Lacks(fromDb, L) /\ Lacks(toWs[1], L)
LoginOK(a) ==
  /\ OneLogin(LoginsOf(a))
  /\ (wsUp \/ wsConns = 0) /\ player[a] # "asked" => NoLogin(LoginsOf(a))
  /\ wsConns = 0 => player[a] = "out" /\ wsSaved[a] = 0
  /\ ~Lacks(toDb, LoginsOf(a)) \/ ~Lacks(fromDb, LoginsOf(a)) => wsSaved[a] = 0

\* The last save is the newest, and none comes after a login; when all are
\* read redis has the last.
SavesOK(a) ==
  /\ Apart(toCache[1], LoginsOf(a), SavesOf(a))
  /\ Followed(toCache[1], OlderOf(a, wsSaved[a]), SavesOf(a))
  /\ Live /\ redisOk /\ Lacks(toCache[1], SavesOf(a)) /\ wsSaved[a] # 0
       => a \in DOMAIN playerInfo /\ playerInfo[a] = wsSaved[a]
  /\ Lacks(toWs[1], StaleAnswersOf(a, wsSaved[a]))

\* Nothing has come of a login before the load has finished.
EarlyOK(a) ==
  Live /\ ~loadFinish =>
    /\ wsSaved[a] = 0 /\ player[a] # "in"
    /\ Lacks(toDb, LoginsOf(a)) /\ Lacks(fromDb, LoginsOf(a))
    /\ Lacks(toWs[1], LoginsOf(a))

\* QUIT is the last message, and the saves go before it.
QuitOK ==
  /\ Apart(toCache[1], {Quit}, WsRequests)
  /\ wsQuit => quitSaved = wsSaved /\ wsConns # 0
  /\ ~wsQuit => /\ Lacks(toCache[1], {Quit}) /\ Lacks(toDb, {DbQuit})
                /\ Lacks(fromDb, {QuitAnswer}) /\ process # "exited"
SavedOK(a) ==
  /\ ~wsQuit => Lacks(toDb, DbSavesOf(a))
  /\ Lacks(toDb, StaleSavesOf(a, wsSaved[a]))
  /\ database[a] >= wsSaved[a] \/ Preceded(toDb, {DbQuit}, DbSavesOf(a))
  /\ ~Lacks(fromDb, {QuitAnswer}) \/ process = "exited"
       => database[a] >= wsSaved[a]

AccountOK(a) == LoginOK(a) /\ SavesOK(a) /\ EarlyOK(a) /\ SavedOK(a)
FirstOK == QuitOK /\ \A a \in Accounts : AccountOK(a)

IInv == /\ Base /\ LoadOK
        /\ wsConns <= 1 /\ 1 \in Conns => FirstOK

-----------------------------------------------------------------------------
(***************************************************************************)
(* Small facts.                                                            *)
(***************************************************************************)
USE DEF Msg, Signal, cacheVars, dbVars, linkVars, worldVars

\* A queue without messages of a set has none of a part of it, and what has
\* none of all there is, is free of any.
LEMMA Fewer ==
  ASSUME NEW S, NEW q \in Seq(S), NEW M, NEW N, M \cap S \subseteq N, Lacks(q, N)
  PROVE  Lacks(q, M)
<1>1. \A i \in 1..Len(q) : q[i] \in S
  BY ElementOfSeq
<1>2. QED
  BY <1>1 DEF Lacks

LEMMA NothingToOrder ==
  ASSUME NEW q, NEW M, NEW N, Lacks(q, M)
  PROVE  Preceded(q, M, N) /\ Followed(q, M, N) /\ Apart(q, M, N)
  BY DEF Lacks, Preceded, Followed, Apart

LEMMA SaveAllKinds ==
  ASSUME Base, NEW order \in SetToSeqs(DOMAIN playerInfo), NEW i \in 1..Len(SaveAll(order))
  PROVE  LET m == SaveAll(order)[i]
         IN /\ m \in DbRequests
            /\ m.type \in {"REDIS_2_DB_SAVEPLAYERINFO", "REDIS_DB_QUIT"}
            /\ m.type = "REDIS_2_DB_SAVEPLAYERINFO"
                 => m.acc \in DOMAIN playerInfo /\ m.ver = playerInfo[m.acc]
<1>1. /\ SaveAll(order) \in Seq(DbRequests)
      /\ Len(order) \in Nat /\ Len(SaveAll(order)) = Len(order) + 1
      /\ SaveAll(order)[Len(order) + 1] = DbQuit
      /\ \A j \in 1..Len(order) :
           /\ order[j] \in DOMAIN playerInfo
           /\ SaveAll(order)[j] = Msg("REDIS_2_DB_SAVEPLAYERINFO", order[j],
                                      playerInfo[order[j]], FALSE)
  BY SaveAllCacheToDbSends
<1>2. SaveAll(order)[i] \in DbRequests
  BY <1>1, ElementOfSeq
<1>3. CASE i = Len(order) + 1
  BY <1>1, <1>2, <1>3 DEF DbQuit
<1>4. CASE i \in 1..Len(order)
  <2> DEFINE m == SaveAll(order)[i]
             acc == order[i]
  <2>1. acc \in DOMAIN playerInfo
    BY <1>1, <1>4
  <2>2. m = Msg("REDIS_2_DB_SAVEPLAYERINFO", acc, playerInfo[acc], FALSE)
    BY <1>1, <1>4
  <2> HIDE DEF m, acc
  <2>3. m.type = "REDIS_2_DB_SAVEPLAYERINFO" /\ m.acc = acc /\ m.ver = playerInfo[acc]
    BY <2>2
  <2>4. QED
    BY <1>2, <2>1, <2>3 DEF m
<1>5. QED
  BY <1>1, <1>3, <1>4

-----------------------------------------------------------------------------
(***************************************************************************)
(* The load.                                                               *)
(***************************************************************************)

LEMMA InitLoad == Init => LoadOK
  BY EmptyQueue DEF Init, LoadOK

LEMMA LoadStep ==
  ASSUME Base, LoadOK, [Next]_vars
  PROVE  LoadOK'
<1>0. toDb \in Seq(DbRequests) /\ fromDb \in Seq(DbAnswers)
  BY DEF Base, QueuesOK
<1>1. CASE DbConnect
  <2>1. toDb = <<>> /\ fromDb = <<>>
    BY <1>1 DEF Base, TypeOK, DbConnect, CanConnect
  <2>2. CASE loadFinish
    BY <1>1, <2>1, <2>2 DEF LoadOK, DbConnect, ConnectedDo, AskLoad
  <2>3. CASE ~loadFinish
    <3>1. toDb' = Append(<<>>, Load) /\ fromDb' = <<>> /\ ~loadFinish' /\ Load \in DbRequests
      BY <1>1, <2>1, <2>3 DEF DbConnect, ConnectedDo, AskLoad, Load, DbRequests
    <3>2. Apart(toDb', {Load}, {Load})
      <4>1. <<>> \in Seq(DbRequests)
        OBVIOUS
      <4>2. QED
        BY <3>1, <4>1, EmptyQueue, GrownQueue
    <3>3. QED
      BY <3>1, <3>2, EmptyQueue DEF LoadOK
  <2>4. QED
    BY <2>2, <2>3
<1>2. CASE DbLost \/ HandleQuit \/ HandlerCrash
  BY <1>2, EmptyQueue DEF LoadOK, DbLost, HandleQuit, HandlerCrash, EndProcess
<1>3. CASE HandleDbCache \/ HandleDbLoadFinish
  <2>1. fromDb # <<>> /\ fromDb' = Tail(fromDb) /\ toDb' = toDb
    BY <1>3 DEF HandleDbCache, HandleDbLoadFinish, FromDb
  <2>2. /\ Lacks(fromDb, {Finish}) => Lacks(fromDb', {Finish})
        /\ Lacks(fromDb, LoadRecords) => Lacks(fromDb', LoadRecords)
        /\ Apart(fromDb', {Finish}, LoadRecords)
        /\ Head(fromDb) \in {Finish} => /\ Lacks(fromDb', LoadRecords)
                                       /\ ~Lacks(fromDb, {Finish})
    BY <1>0, <2>1, TakenQueue DEF LoadOK
  <2>3. CASE HandleDbCache
    BY <2>1, <2>2, <2>3 DEF LoadOK, HandleDbCache
  <2>4. CASE HandleDbLoadFinish
    <3>1. Head(fromDb) \in DbAnswers /\ Head(fromDb).type = "DB_2_REDIS_ALLLOADFINISH"
      BY <1>0, <2>1, <2>4, TakenQueue DEF HandleDbLoadFinish, FromDb
    <3>2. Head(fromDb) \in {Finish}
      BY <3>1, DbAnswerKinds
    <3>3. QED
      BY <2>1, <2>2, <3>2 DEF LoadOK
  <2>5. QED
    BY <1>3, <2>3, <2>4
<1>4. ASSUME NEW c \in Conns, LoadPlayerInfo(c)
      PROVE  LoadOK'
  <2>1. PICK one \in DbRequests : /\ toDb' = toDb \/ toDb' = Append(toDb, one)
                                 /\ one.type = "REDIS_DB_LOADONEPLAYERINFO"
    BY <1>4, LoadPlayerInfoSends
  <2>2. one \notin {Load}
    BY <2>1, DbRequestKinds
  <2>3. /\ Apart(Append(toDb, one), {Load}, {Load})
        /\ Lacks(toDb, {Load}) => Lacks(Append(toDb, one), {Load})
    BY <1>0, <2>2, GrownQueue DEF LoadOK
  <2>4. fromDb' = fromDb /\ loadFinish' = loadFinish
    BY <1>4 DEF LoadPlayerInfo
  <2>5. QED
    BY <2>1, <2>3, <2>4 DEF LoadOK
<1>5. ASSUME NEW c \in Conns, SaveAllCacheToDb(c)
      PROVE  LoadOK'
  <2>1. PICK order \in SetToSeqs(DOMAIN playerInfo) : SendToDb(SaveAll(order))
    BY <1>5 DEF SaveAllCacheToDb
  <2>2. SaveAll(order) \in Seq(DbRequests)
    BY SaveAllCacheToDbSends
  <2>3. Lacks(SaveAll(order), {Load})
    <3>1. ASSUME NEW i \in 1..Len(SaveAll(order))
          PROVE  SaveAll(order)[i] \notin {Load}
      BY SaveAllKinds, DbRequestKinds
    <3>2. QED
      BY <3>1 DEF Lacks
  <2>4. Apart(SaveAll(order), {Load}, {Load})
    BY <2>3, NothingToOrder
  <2>5. toDb' \in {toDb, toDb \o SaveAll(order)}
    BY <2>1 DEF SendToDb
  <2>6. /\ Apart(toDb \o SaveAll(order), {Load}, {Load})
        /\ Lacks(toDb, {Load}) => Lacks(toDb \o SaveAll(order), {Load})
    BY <1>0, <2>2, <2>3, <2>4, JoinedQueues DEF LoadOK
  <2>7. fromDb' = fromDb /\ loadFinish' = loadFinish
    BY <1>5 DEF SaveAllCacheToDb
  <2>8. QED
    BY <2>5, <2>6, <2>7 DEF LoadOK
<1>6. CASE Restart
  <2>1. toDb' = toDb /\ fromDb' = fromDb /\ ~loadFinish'
    BY <1>6 DEF Restart
  <2>2. QED
    BY <2>1 DEF LoadOK
<1>7. CASE DbServe
  <2> DEFINE m == Head(toDb)
  <2>1. toDb # <<>> /\ toDb' = Tail(toDb) /\ loadFinish' = loadFinish
    BY <1>7 DEF DbServe
  <2>2. /\ m \in DbRequests
        /\ Lacks(toDb, {Load}) <=> m \notin {Load} /\ Lacks(toDb', {Load})
        /\ Apart(toDb', {Load}, {Load})
        /\ m \in {Load} => Lacks(toDb', {Load})
    BY <1>0, <2>1, TakenQueue DEF LoadOK
  <2>3. ASSUME m.type = "REDIS_2_DB_ALLPLAYERINFO"
        PROVE  LoadOK'
    <3>1. m \in {Load} /\ ~loadFinish /\ Lacks(fromDb, {Finish})
      BY <2>2, <2>3, DbRequestKinds DEF LoadOK
    <3>2. PICK r \in Seq(DbAnswers) :
            /\ \A i \in 1..Len(r) : r[i] \in LoadRecords
            /\ fromDb' = Append(fromDb \o r, Finish)
      BY <1>7, <2>3, DbServeFacts DEF Current
    <3>3. Finish \notin LoadRecords /\ Finish \in DbAnswers
      BY DEF LoadRecords, Finish, DbAnswers
    <3>4. Lacks(r, {Finish})
      BY <3>2, <3>3 DEF Lacks
    <3>5. fromDb \o r \in Seq(DbAnswers) /\ Lacks(fromDb \o r, {Finish})
      BY <1>0, <3>1, <3>4, JoinedQueues
    <3>6. Apart(fromDb \o r, {Finish}, LoadRecords)
      BY <3>5, NothingToOrder
    <3>7. Apart(fromDb', {Finish}, LoadRecords)
      BY <3>2, <3>3, <3>5, <3>6, GrownQueue
    <3>8. QED
      BY <2>1, <2>2, <3>1, <3>7 DEF LoadOK
  <2>4. ASSUME m.type \in {"REDIS_DB_LOADONEPLAYERINFO", "REDIS_DB_QUIT"}
        PROVE  LoadOK'
    <3>1. PICK answer \in DbAnswers :
            /\ fromDb' = Append(fromDb, answer)
            /\ answer.login \/ answer.type = "DB_REDIS_QUIT"
            /\ answer.type # "DB_2_REDIS_ALLLOADFINISH"
      <4>1. QuitAnswer \in DbAnswers /\ QuitAnswer.type = "DB_REDIS_QUIT"
        BY DEF DbAnswers, QuitAnswer
      <4>2. QED
        BY <1>7, <2>4, <4>1, DbServeFacts
    <3>2. answer \notin LoadRecords /\ answer \notin {Finish}
      BY <3>1, DbAnswerKinds
    <3>3. /\ Apart(fromDb', {Finish}, LoadRecords)
          /\ Lacks(fromDb', {Finish}) <=> Lacks(fromDb, {Finish})
          /\ Lacks(fromDb', LoadRecords) <=> Lacks(fromDb, LoadRecords)
      BY <1>0, <3>1, <3>2, GrownQueue DEF LoadOK
    <3>4. QED
      BY <2>1, <2>2, <3>3 DEF LoadOK
  <2>5. ASSUME m.type = "REDIS_2_DB_SAVEPLAYERINFO"
        PROVE  LoadOK'
    <3>1. fromDb' = fromDb
      BY <1>7, <2>5, DbServeFacts
    <3>2. QED
      BY <2>1, <2>2, <3>1 DEF LoadOK
  <2>6. QED
    BY <2>2, <2>3, <2>4, <2>5, DbRequestKinds
<1>8. ASSUME UNCHANGED <<toDb, fromDb, loadFinish>>
      PROVE  LoadOK'
  BY <1>8 DEF LoadOK
<1>9. QED
  BY <1>1, <1>2, <1>3, <1>4, <1>5, <1>6, <1>7, <1>8
     DEF Next, vars, DbConnectPending, DbEstablished, Accept, CloseNode, DeleteNode,
         DropEarly, SavePlayerInfo, RedisLost, WsConnect, WsDrop, WsReceive, WsQuit,
         WsLogin, WsSave

-----------------------------------------------------------------------------
(***************************************************************************)
(* The first connection of the world server.                               *)
(***************************************************************************)
InFirst == Base /\ LoadOK /\ FirstOK /\ wsConns <= 1 /\ 1 \in Conns

\* What the first connection depends on, beside the queues.
Others == <<process, loadFinish, redisOk, playerInfo, database, wsSock, wsConns, wsUp,
            player, wsSaved, wsQuit, quitSaved>>

LEMMA FirstTypes ==
  ASSUME InFirst
  PROVE  /\ toDb \in Seq(DbRequests) /\ fromDb \in Seq(DbAnswers)
         /\ toCache[1] \in Seq(WsRequests) /\ toWs[1] \in Seq(WsAnswers)
         /\ wsConns \in {0, 1} /\ 1 \in Conns
         /\ \A a \in Accounts : wsSaved[a] \in Nat /\ database[a] \in Nat
         /\ \A a \in DOMAIN playerInfo : a \in Accounts /\ playerInfo[a] \in Nat
         /\ wsConns = 0 => ~wsUp /\ wsSock[1] = "none" /\ toCache[1] = <<>> /\ toWs[1] = <<>>
<1>1. 1 \in Conns /\ wsConns \in Nat /\ wsConns <= 1 /\ Versions \subseteq Nat
  BY ConstantsAssumption DEF InFirst, Base, TypeOK, Versions
<1>2. wsConns \in {0, 1}
  BY <1>1
<1>3. toDb \in Seq(DbRequests) /\ fromDb \in Seq(DbAnswers)
      /\ toCache[1] \in Seq(WsRequests) /\ toWs[1] \in Seq(WsAnswers)
  BY <1>1 DEF InFirst, Base, QueuesOK
<1>4. /\ \A a \in Accounts : wsSaved[a] \in Nat /\ database[a] \in Nat
      /\ \A a \in DOMAIN playerInfo : a \in Accounts /\ playerInfo[a] \in Nat
  BY <1>1 DEF InFirst, Base, TypeOK
<1>5. wsConns = 0 => ~wsUp /\ wsSock[1] = "none" /\ toCache[1] = <<>> /\ toWs[1] = <<>>
  BY <1>1 DEF InFirst, Base, LinksOK
<1>6. QED
  BY <1>1, <1>2, <1>3, <1>4, <1>5

LEMMA InitFirst == Init /\ 1 \in Conns => FirstOK
<1> SUFFICES ASSUME Init, 1 \in Conns PROVE FirstOK
  OBVIOUS
<1>1. /\ toDb = <<>> /\ fromDb = <<>> /\ toCache[1] = <<>> /\ toWs[1] = <<>>
      /\ process = "running" /\ wsQuit = FALSE /\ wsSock[1] = "none"
  BY DEF Init
<1>2. QuitOK
  BY <1>1, EmptyQueue DEF QuitOK
<1>3. ASSUME NEW a \in Accounts
      PROVE  AccountOK(a)
  <2>1. wsSaved[a] = 0 /\ player[a] = "out" /\ database[a] >= 0
    BY DEF Init
  <2>2. LoginOK(a)
    BY <1>1, <2>1, EmptyQueue DEF LoginOK, OneLogin, NoLogin
  <2>3. SavesOK(a) /\ EarlyOK(a)
    BY <1>1, <2>1, EmptyQueue DEF SavesOK, EarlyOK, Live
  <2>4. SavedOK(a)
    BY <1>1, <2>1, EmptyQueue DEF SavedOK
  <2>5. QED
    BY <2>2, <2>3, <2>4 DEF AccountOK
<1>4. QED
  BY <1>2, <1>3 DEF FirstOK

LEMMA DbConnectionFirst ==
  ASSUME InFirst, DbConnect \/ DbConnectPending \/ DbEstablished
  PROVE  FirstOK'
<1>1. toDb' \in {toDb, Append(toDb, Load)} /\ UNCHANGED <<fromDb, toCache, toWs, Others>>
  BY DEF DbConnect, ConnectedDo, AskLoad, Load, DbConnectPending, DbEstablished, Others
<1>2. Load \in DbRequests
  BY DEF DbRequests
<1>3. ASSUME NEW M, NEW N, Load \notin M
      PROVE  /\ Lacks(toDb', M) <=> Lacks(toDb, M)
             /\ Apart(toDb, M, M) => Apart(toDb', M, M)
             /\ Preceded(toDb, M, N) => Preceded(toDb', M, N)
  <2> DEFINE grown == Append(toDb, Load)
  <2>1. toDb \in Seq(DbRequests)
    BY FirstTypes
  <2>2. /\ Lacks(grown, M) <=> Lacks(toDb, M)
        /\ Apart(toDb, M, M) => Apart(grown, M, M)
        /\ Preceded(toDb, M, N) => Preceded(grown, M, N)
    BY <1>2, <1>3, <2>1, GrownQueue
  <2> HIDE DEF grown
  <2>3. toDb' \in {toDb, grown}
    BY <1>1 DEF grown
  <2>4. QED
    BY <2>2, <2>3
<1>4. Load \notin {DbQuit}
  BY DEF Load, DbQuit
<1>5. QuitOK'
  BY <1>1, <1>3, <1>4 DEF InFirst, FirstOK, QuitOK, Others
<1>6. ASSUME NEW a \in Accounts
      PROVE  AccountOK(a)'
  <2>0. LoginOK(a) /\ SavesOK(a) /\ EarlyOK(a) /\ SavedOK(a)
    BY DEF InFirst, FirstOK, AccountOK
  <2>1. Load \notin LoginsOf(a) /\ Load \notin DbSavesOf(a) /\ Load \notin StaleSavesOf(a, wsSaved[a])
    BY DEF Load, LoginsOf, DbSavesOf, StaleSavesOf
  <2>2. LoginOK(a)'
    BY <1>1, <1>3, <2>0, <2>1 DEF LoginOK, OneLogin, NoLogin, Others
  <2>3. SavesOK(a)' /\ EarlyOK(a)'
    BY <1>1, <1>3, <2>0, <2>1 DEF SavesOK, EarlyOK, Live, Running, Others
  <2>4. SavedOK(a)'
    BY <1>1, <1>3, <1>4, <2>0, <2>1 DEF SavedOK, Others
  <2>5. QED
    BY <2>2, <2>3, <2>4 DEF AccountOK
<1>7. QED
  BY <1>5, <1>6 DEF FirstOK

\* A loss of the database, and the end of the process.
LEMMA LostFirst ==
  ASSUME InFirst, DbLost \/ HandlerCrash \/ HandleQuit
  PROVE  FirstOK'
<1>1. /\ toDb' = <<>> /\ fromDb' = <<>> /\ UNCHANGED <<toWs, database, wsConns, wsUp>>
      /\ UNCHANGED <<loadFinish, redisOk, playerInfo, player, wsSaved, wsQuit, quitSaved>>
  BY DEF DbLost, HandlerCrash, HandleQuit, EndProcess
<1>2. toCache'[1] = toCache[1] \/ toCache'[1] = <<>>
  BY DEF InFirst, DbLost, HandlerCrash, HandleQuit, EndProcess
<1>3. Live' => Live /\ toCache'[1] = toCache[1]
  BY DEF Live, Running, DbLost, HandlerCrash, HandleQuit, EndProcess
<1>4. process' = "exited" => \/ process = "exited"
                            \/ ~Lacks(fromDb, {QuitAnswer})
  <2>1. ASSUME HandleQuit
        PROVE  ~Lacks(fromDb, {QuitAnswer})
    <3>1. fromDb # <<>> /\ Head(fromDb).type = "DB_REDIS_QUIT"
      BY <2>1 DEF HandleQuit, FromDb
    <3>2. Head(fromDb) \in {QuitAnswer}
      BY <3>1, FirstTypes, TakenQueue, DbAnswerKinds
    <3>3. QED
      BY <3>1, <3>2, FirstTypes, TakenQueue
  <2>2. QED
    BY <2>1 DEF DbLost, HandlerCrash, EndProcess
<1>5. QuitOK'
  BY <1>1, <1>2, <1>4, EmptyQueue DEF InFirst, FirstOK, QuitOK
<1>6. ASSUME NEW a \in Accounts
      PROVE  AccountOK(a)'
  <2>0. LoginOK(a) /\ SavesOK(a) /\ EarlyOK(a) /\ SavedOK(a)
    BY DEF InFirst, FirstOK, AccountOK
  <2>1. LoginOK(a)'
    BY <1>1, <1>2, <2>0, EmptyQueue DEF LoginOK, OneLogin, NoLogin
  <2>2. SavesOK(a)'
    BY <1>1, <1>2, <1>3, <2>0, EmptyQueue DEF SavesOK
  <2>3. EarlyOK(a)'
    BY <1>1, <1>3, <2>0, EmptyQueue DEF EarlyOK
  <2>4. SavedOK(a)'
    BY <1>1, <1>4, <2>0, EmptyQueue DEF SavedOK
  <2>5. QED
    BY <2>1, <2>2, <2>3, <2>4 DEF AccountOK
<1>7. QED
  BY <1>5, <1>6 DEF FirstOK

LEMMA HandleDbLoadFinishFirst ==
  ASSUME InFirst, HandleDbLoadFinish
  PROVE  FirstOK'
<1>1. /\ fromDb # <<>> /\ fromDb' = Tail(fromDb) /\ loadFinish'
      /\ UNCHANGED <<toDb, toCache, toWs, process, redisOk, playerInfo, database, wsSock>>
      /\ UNCHANGED <<wsConns, wsUp, player, wsSaved, wsQuit, quitSaved>>
  BY DEF HandleDbLoadFinish, FromDb
<1>2. ASSUME NEW M
      PROVE  /\ Lacks(fromDb, M) => Lacks(fromDb', M)
             /\ Apart(fromDb, M, M) => Apart(fromDb', M, M)
  BY <1>1, FirstTypes, TakenQueue
<1>3. QuitOK'
  BY <1>1, <1>2 DEF InFirst, FirstOK, QuitOK
<1>4. ASSUME NEW a \in Accounts
      PROVE  AccountOK(a)'
  <2>0. LoginOK(a) /\ SavesOK(a) /\ EarlyOK(a) /\ SavedOK(a)
    BY DEF InFirst, FirstOK, AccountOK
  <2>1. LoginOK(a)'
    BY <1>1, <1>2, <2>0 DEF LoginOK, OneLogin, NoLogin
  <2>2. SavesOK(a)' /\ EarlyOK(a)'
    BY <1>1, <2>0 DEF SavesOK, EarlyOK, Live, Running
  <2>3. SavedOK(a)'
    BY <1>1, <1>2, <2>0 DEF SavedOK
  <2>4. QED
    BY <2>1, <2>2, <2>3 DEF AccountOK
<1>5. QED
  BY <1>3, <1>4 DEF FirstOK

LEMMA HandleDbCacheFirst ==
  ASSUME InFirst, HandleDbCache
  PROVE  FirstOK'
<1> DEFINE m == Head(fromDb)
           acc == m.acc
           answer == Msg("REDIS_WS_LOADPLAYERINFO", m.acc, m.ver, TRUE)
<1>1. /\ fromDb # <<>> /\ fromDb' = Tail(fromDb) /\ AddSelfCache(acc, m.ver)
      /\ m.type = "DB_2_REDIS_ALLPLAYERINFO"
      /\ UNCHANGED <<toDb, toCache, process, loadFinish, redisOk, database, wsSock>>
      /\ UNCHANGED <<wsConns, wsUp, player, wsSaved, wsQuit, quitSaved>>
  BY DEF HandleDbCache, FromDb
<1>2. ASSUME NEW M
      PROVE  /\ Lacks(fromDb, M) <=> m \notin M /\ Lacks(fromDb', M)
             /\ Apart(fromDb, M, M) => /\ Apart(fromDb', M, M)
                                       /\ m \in M => Lacks(fromDb', M)
  BY <1>1, FirstTypes, TakenQueue
<1>3. m \in DbAnswers /\ acc \in Accounts /\ m.ver \in Versions /\ m.ver \in Nat
  <2>1. m \in DbAnswers
    BY <1>1, FirstTypes, TakenQueue
  <2>2. QED
    BY <1>1, <2>1, DbAnswerKinds, MessageFields, ConstantsAssumption DEF Versions
<1>4. /\ \A a \in DOMAIN playerInfo :
           a # acc => a \in DOMAIN playerInfo' /\ playerInfo'[a] = playerInfo[a]
  BY <1>1, <1>3, AddSelfCacheOK DEF InFirst, Base
<1>5. answer \in WsAnswers
  BY <1>3 DEF WsAnswers, Of, Messages, MsgTypes
<1>6. \/ toWs'[1] = toWs[1]
      \/ m.login /\ toWs'[1] = Append(toWs[1], answer) /\ wsSock[1] = "open"
  <2>1. toWs \in [Conns -> Seq(WsAnswers)] /\ 1 \in Conns
    BY DEF InFirst, Base, QueuesOK
  <2>2. CASE m.login
    <3>1. SendToWs(answer)
      BY <2>2 DEF HandleDbCache
    <3>2. QED
      BY <2>1, <2>2, <3>1 DEF SendToWs
  <2>3. CASE ~m.login
    BY <2>3 DEF HandleDbCache
  <2>4. QED
    BY <2>2, <2>3
<1> HIDE DEF m, answer, acc
<1>7. QuitOK'
  BY <1>1, <1>2 DEF InFirst, FirstOK, QuitOK
<1>8. ASSUME NEW a \in Accounts
      PROVE  AccountOK(a)'
  <2>0. LoginOK(a) /\ SavesOK(a) /\ EarlyOK(a) /\ SavedOK(a)
    BY DEF InFirst, FirstOK, AccountOK
  <2>1. m \in LoginsOf(a) <=> m.login /\ a = acc
    BY <1>1, <1>3, DbAnswerKinds DEF acc
  <2>2. answer \in LoginsOf(a) <=> a = acc
    BY <1>5, WsAnswerKinds DEF answer, acc
  <2>3. m.login /\ a = acc => ~Lacks(fromDb, LoginsOf(a)) /\ wsSaved[a] = 0
    BY <1>2, <2>0, <2>1 DEF LoginOK
  <2>4. \/ toWs'[1] = toWs[1]
        \/ /\ m.login
           /\ Lacks(toWs'[1], LoginsOf(a)) <=> Lacks(toWs[1], LoginsOf(a)) /\ a # acc
           /\ (a = acc => Lacks(toWs[1], LoginsOf(a)))
                => Apart(toWs'[1], LoginsOf(a), LoginsOf(a))
    <3> DEFINE grown == Append(toWs[1], answer)
    <3>1. toWs[1] \in Seq(WsAnswers) /\ Apart(toWs[1], LoginsOf(a), LoginsOf(a))
      BY <2>0, FirstTypes DEF LoginOK, OneLogin
    <3>2. /\ Lacks(grown, LoginsOf(a)) <=> Lacks(toWs[1], LoginsOf(a)) /\ a # acc
          /\ (a = acc => Lacks(toWs[1], LoginsOf(a)))
               => Apart(grown, LoginsOf(a), LoginsOf(a))
      BY <1>5, <2>2, <3>1, GrownQueue
    <3> HIDE DEF grown
    <3>3. toWs'[1] = toWs[1] \/ (m.login /\ toWs'[1] = grown)
      BY <1>6 DEF grown
    <3>4. QED
      BY <3>2, <3>3
  <2>5. LoginOK(a)'
    <3>1. CASE m.login /\ a = acc
      <4>1. /\ Lacks(toCache[1], LoginsOf(a)) /\ Lacks(toDb, LoginsOf(a))
            /\ Lacks(toWs[1], LoginsOf(a)) /\ Lacks(fromDb', LoginsOf(a))
        BY <1>2, <2>0, <2>1, <2>3, <3>1 DEF LoginOK, OneLogin
      <4>2. OneLogin(LoginsOf(a))'
        BY <1>1, <1>2, <2>0, <2>4, <4>1 DEF LoginOK, OneLogin
      <4>3. ~((wsUp \/ wsConns = 0) /\ player[a] # "asked")
        BY <2>0, <2>3, <3>1 DEF LoginOK, NoLogin
      <4>4. QED
        BY <1>1, <2>0, <4>1, <4>2, <4>3 DEF LoginOK
    <3>2. CASE ~(m.login /\ a = acc)
      <4>1. /\ Lacks(toWs'[1], LoginsOf(a)) <=> Lacks(toWs[1], LoginsOf(a))
            /\ Apart(toWs'[1], LoginsOf(a), LoginsOf(a))
            /\ Lacks(fromDb', LoginsOf(a)) <=> Lacks(fromDb, LoginsOf(a))
        BY <1>2, <1>6, <2>0, <2>1, <2>4, <3>2 DEF LoginOK, OneLogin
      <4>2. QED
        BY <1>1, <1>2, <2>0, <4>1 DEF LoginOK, OneLogin, NoLogin
    <3>3. QED
      BY <3>1, <3>2
  <2>6. EarlyOK(a)'
    <3>1. CASE Live /\ ~loadFinish
      <4>1. ~(m.login /\ a = acc)
        BY <2>0, <2>3, <3>1 DEF EarlyOK
      <4>2. QED
        BY <1>1, <1>2, <1>6, <2>0, <2>4, <4>1 DEF EarlyOK, Live, Running
    <3>2. QED
      BY <1>1, <3>1 DEF EarlyOK, Live, Running
  <2>7. SavesOK(a)'
    <3>1. ASSUME a = acc, Live
          PROVE  wsSaved[a] = 0
      <4>1. CASE m.login
        BY <2>3, <3>1, <4>1
      <4>2. CASE ~m.login
        <5>1. m \in LoadRecords
          BY <1>1, <1>3, <4>2, DbAnswerKinds
        <5>2. ~loadFinish
          BY <1>2, <5>1 DEF InFirst, LoadOK
        <5>3. QED
          BY <2>0, <3>1, <5>2 DEF EarlyOK
      <4>3. QED
        BY <4>1, <4>2
    <3>2. Lacks(toWs'[1], StaleAnswersOf(a, wsSaved[a]))
      <4>1. CASE toWs'[1] = toWs[1]
        BY <2>0, <4>1 DEF SavesOK
      <4>2. CASE m.login /\ toWs'[1] = Append(toWs[1], answer)
        <5>1. answer \notin StaleAnswersOf(a, wsSaved[a])
          <6>1. answer.ver \in Nat
            BY <1>3 DEF answer
          <6>2. QED
            BY <2>2, <2>3, <4>2, <6>1 DEF StaleAnswersOf
        <5>2. toWs[1] \in Seq(WsAnswers)
          BY FirstTypes
        <5>3. Lacks(Append(toWs[1], answer), StaleAnswersOf(a, wsSaved[a]))
          BY <1>5, <2>0, <5>1, <5>2, GrownQueue DEF SavesOK
        <5>4. QED
          BY <4>2, <5>3
      <4>3. QED
        BY <1>6, <4>1, <4>2
    <3>3. Live' <=> Live
      BY <1>1 DEF Live, Running
    <3>4. QED
      BY <1>1, <1>4, <2>0, <3>1, <3>2, <3>3 DEF SavesOK
  <2>8. SavedOK(a)'
    BY <1>1, <1>2, <2>0 DEF SavedOK
  <2>9. QED
    BY <2>5, <2>6, <2>7, <2>8 DEF AccountOK
<1>9. QED
  BY <1>7, <1>8 DEF FirstOK

LEMMA NodeFirst ==
  ASSUME InFirst, NEW c \in Conns, Accept(c) \/ CloseNode(c) \/ DeleteNode(c)
  PROVE  FirstOK'
<1>1. /\ UNCHANGED <<toDb, fromDb, toWs, process, loadFinish, redisOk, playerInfo>>
      /\ UNCHANGED <<database, wsConns, wsUp, player, wsSaved, wsQuit, quitSaved>>
  BY DEF Accept, CloseNode, DeleteNode
<1>2. /\ toCache'[1] = toCache[1] \/ toCache'[1] = <<>>
      /\ Live' => Live /\ toCache'[1] = toCache[1]
  BY DEF InFirst, Base, TypeOK, QueuesOK, Live, Running, Accept, CloseNode, DeleteNode
<1>3. QuitOK'
  BY <1>1, <1>2, EmptyQueue DEF InFirst, FirstOK, QuitOK
<1>4. ASSUME NEW a \in Accounts
      PROVE  AccountOK(a)'
  <2>0. LoginOK(a) /\ SavesOK(a) /\ EarlyOK(a) /\ SavedOK(a)
    BY DEF InFirst, FirstOK, AccountOK
  <2>1. LoginOK(a)'
    BY <1>1, <1>2, <2>0, EmptyQueue DEF LoginOK, OneLogin, NoLogin
  <2>2. SavesOK(a)'
    BY <1>1, <1>2, <2>0, EmptyQueue DEF SavesOK
  <2>3. EarlyOK(a)' /\ SavedOK(a)'
    BY <1>1, <1>2, <2>0 DEF EarlyOK, SavedOK
  <2>4. QED
    BY <2>1, <2>2, <2>3 DEF AccountOK
<1>5. QED
  BY <1>3, <1>4 DEF FirstOK

\* The next request of the first connection.
LEMMA RequestFirst ==
  ASSUME InFirst, NEW c \in Conns, HasRequest(c), Taken(c)
  PROVE  /\ c = 1 /\ wsConns = 1 /\ Live /\ wsSock[1] = "open"
         /\ Head(toCache[1]) \in WsRequests /\ Tail(toCache[1]) \in Seq(WsRequests)
         /\ toCache'[1] = Tail(toCache[1])
         /\ \A M : /\ Lacks(toCache[1], M) <=> Head(toCache[1]) \notin M /\ Lacks(toCache'[1], M)
         /\ \A M, N : Apart(toCache[1], M, N) =>
                        /\ Apart(toCache'[1], M, N)
                        /\ Head(toCache[1]) \in M => Lacks(toCache'[1], N)
         /\ \A M, N : Followed(toCache[1], M, N) =>
                        /\ Followed(toCache'[1], M, N)
                        /\ Head(toCache[1]) \in M => ~Lacks(toCache'[1], N)
<1>1. c \in 1..wsConns /\ wsConns \in {0, 1}
  BY Served, FirstTypes DEF InFirst
<1>2. c = 1 /\ wsConns = 1
  BY <1>1
<1>3. /\ Live /\ wsSock[1] = "open"
      /\ toCache[1] # <<>> /\ toCache[1] \in Seq(WsRequests)
  BY <1>2, FirstTypes DEF HasRequest, Live
<1>4. toCache'[1] = Tail(toCache[1])
  BY <1>2, Served DEF InFirst, Base, QueuesOK
<1> DEFINE q == toCache[1]
<1>5. q \in Seq(WsRequests) /\ q # <<>> /\ toCache'[1] = Tail(q)
  BY <1>3, <1>4
<1> HIDE DEF q
<1>6. ASSUME NEW M, NEW N
      PROVE  /\ Lacks(q, M) <=> Head(q) \notin M /\ Lacks(Tail(q), M)
             /\ Apart(q, M, N) => /\ Apart(Tail(q), M, N)
                                  /\ Head(q) \in M => Lacks(Tail(q), N)
             /\ Followed(q, M, N) => /\ Followed(Tail(q), M, N)
                                     /\ Head(q) \in M => ~Lacks(Tail(q), N)
  BY <1>5, TakenQueue
<1>7. Head(q) \in WsRequests /\ Tail(q) \in Seq(WsRequests)
  BY <1>5, TakenQueue
<1>8. /\ \A M : Lacks(q, M) <=> Head(q) \notin M /\ Lacks(toCache'[1], M)
      /\ \A M, N : Apart(q, M, N) => /\ Apart(toCache'[1], M, N)
                                     /\ Head(q) \in M => Lacks(toCache'[1], N)
      /\ \A M, N : Followed(q, M, N) => /\ Followed(toCache'[1], M, N)
                                        /\ Head(q) \in M => ~Lacks(toCache'[1], N)
  BY <1>5, <1>6
<1>9. QED
  BY <1>2, <1>3, <1>4, <1>7, <1>8 DEF q

LEMMA DropEarlyFirst ==
  ASSUME InFirst, NEW c \in Conns, DropEarly(c)
  PROVE  FirstOK'
<1>1. /\ HasRequest(c) /\ Taken(c) /\ ~loadFinish
      /\ UNCHANGED <<toDb, fromDb, toWs, Others>>
  BY DEF DropEarly, Others
<1>2. /\ Live /\ Live'
      /\ \A M : Lacks(toCache[1], M) => Lacks(toCache'[1], M)
      /\ \A M, N : Apart(toCache[1], M, N) => Apart(toCache'[1], M, N)
      /\ \A M, N : Followed(toCache[1], M, N) => Followed(toCache'[1], M, N)
  BY <1>1, RequestFirst DEF Live, Running, Others
<1>3. QuitOK'
  BY <1>1, <1>2 DEF InFirst, FirstOK, QuitOK, Others
<1>4. ASSUME NEW a \in Accounts
      PROVE  AccountOK(a)'
  <2>0. LoginOK(a) /\ SavesOK(a) /\ EarlyOK(a) /\ SavedOK(a)
    BY DEF InFirst, FirstOK, AccountOK
  <2>1. LoginOK(a)'
    BY <1>1, <1>2, <2>0 DEF LoginOK, OneLogin, NoLogin, Others
  <2>2. SavesOK(a)'
    BY <1>1, <1>2, <2>0 DEF SavesOK, EarlyOK, Others
  <2>3. EarlyOK(a)' /\ SavedOK(a)'
    BY <1>1, <1>2, <2>0 DEF EarlyOK, SavedOK, Others
  <2>4. QED
    BY <2>1, <2>2, <2>3 DEF AccountOK
<1>5. QED
  BY <1>3, <1>4 DEF FirstOK

LEMMA SavePlayerInfoFirst ==
  ASSUME InFirst, NEW c \in Conns, SavePlayerInfo(c)
  PROVE  FirstOK'
<1> DEFINE m == Head(toCache[1])
           acc == m.acc
<1>1. /\ HasRequest(c) /\ Taken(c) /\ loadFinish
      /\ UNCHANGED <<toDb, fromDb, toWs, process, loadFinish, redisOk, database, wsSock>>
      /\ UNCHANGED <<wsConns, wsUp, player, wsSaved, wsQuit, quitSaved>>
  BY DEF SavePlayerInfo, Request
<1>2. /\ c = 1 /\ Live /\ Live' /\ m \in WsRequests
      /\ \A M : Lacks(toCache[1], M) <=> m \notin M /\ Lacks(toCache'[1], M)
      /\ \A M, N : Apart(toCache[1], M, N) => Apart(toCache'[1], M, N)
      /\ \A M, N : Followed(toCache[1], M, N) =>
                     /\ Followed(toCache'[1], M, N)
                     /\ m \in M => ~Lacks(toCache'[1], N)
  BY <1>1, RequestFirst DEF Live, Running
<1>3. /\ m.type = "WS_REDIS_SAVEPLAYERINFO" /\ acc \in Accounts /\ m.ver \in Versions
      /\ \A a \in Accounts : m \in SavesOf(a) <=> a = acc
  BY <1>2, WsRequestKinds, MessageFields DEF SavePlayerInfo, Request
<1>4. /\ \A a \in DOMAIN playerInfo :
           a # acc => a \in DOMAIN playerInfo' /\ playerInfo'[a] = playerInfo[a]
      /\ redisOk => acc \in DOMAIN playerInfo' /\ playerInfo'[acc] = m.ver
  BY <1>2, <1>3, AddSelfCacheOK DEF SavePlayerInfo, InFirst, Base
<1> HIDE DEF acc, m
<1>5. QuitOK'
  BY <1>1, <1>2 DEF InFirst, FirstOK, QuitOK
<1>6. ASSUME NEW a \in Accounts
      PROVE  AccountOK(a)'
  <2>0. LoginOK(a) /\ SavesOK(a) /\ EarlyOK(a) /\ SavedOK(a)
    BY DEF InFirst, FirstOK, AccountOK
  <2>1. LoginOK(a)'
    BY <1>1, <1>2, <2>0 DEF LoginOK, OneLogin, NoLogin
  <2>2. SavesOK(a)'
    <3>1. ASSUME Lacks(toCache'[1], SavesOf(a)), a = acc
          PROVE  m.ver = wsSaved[a]
      <4>1. m \notin OlderOf(a, wsSaved[a])
        BY <1>2, <2>0, <3>1 DEF SavesOK
      <4>2. QED
        BY <1>3, <3>1, <4>1 DEF OlderOf
    <3>2. a # acc => Lacks(toCache[1], SavesOf(a)) <=> Lacks(toCache'[1], SavesOf(a))
      BY <1>2, <1>3
    <3>3. QED
      BY <1>1, <1>2, <1>4, <2>0, <3>1, <3>2 DEF SavesOK
  <2>3. EarlyOK(a)' /\ SavedOK(a)'
    BY <1>1, <1>2, <2>0 DEF EarlyOK, SavedOK
  <2>4. QED
    BY <2>1, <2>2, <2>3 DEF AccountOK
<1>7. QED
  BY <1>5, <1>6 DEF FirstOK

LEMMA LoadPlayerInfoFirst ==
  ASSUME InFirst, NEW c \in Conns, LoadPlayerInfo(c)
  PROVE  FirstOK'
<1> DEFINE m == Head(toCache[1])
           acc == m.acc
           answer == Msg("REDIS_WS_LOADPLAYERINFO", acc, playerInfo[acc], TRUE)
           one == Msg("REDIS_DB_LOADONEPLAYERINFO", acc, 0, TRUE)
<1>1. /\ HasRequest(c) /\ Taken(c) /\ loadFinish /\ redisOk
      /\ UNCHANGED <<fromDb, Others>>
  BY DEF LoadPlayerInfo, Request, Others
<1>2. /\ c = 1 /\ Live /\ Live' /\ m \in WsRequests
      /\ \A M : Lacks(toCache[1], M) <=> m \notin M /\ Lacks(toCache'[1], M)
      /\ \A M, N : Apart(toCache[1], M, N) => /\ Apart(toCache'[1], M, N)
                                              /\ m \in M => Lacks(toCache'[1], N)
      /\ \A M, N : Followed(toCache[1], M, N) => Followed(toCache'[1], M, N)
  BY <1>1, RequestFirst DEF Live, Running, Others
<1>3. /\ m.type = "WS_REDIS_LOADPLAYERINFO" /\ acc \in Accounts
      /\ \A a \in Accounts : m \in LoginsOf(a) <=> a = acc
      /\ \A a \in Accounts : m \notin SavesOf(a)
  BY <1>2, WsRequestKinds DEF LoadPlayerInfo, Request
<1>4. /\ one \in DbRequests
      /\ Cached(acc) => /\ answer \in WsAnswers /\ toDb' = toDb
                        /\ \/ toWs'[1] = toWs[1]
                           \/ toWs'[1] = Append(toWs[1], answer)
      /\ ~Cached(acc) => toWs' = toWs /\ (toDb' = toDb \/ toDb' = Append(toDb, one))
  <2>1. /\ one \in DbRequests
        /\ Cached(acc) => /\ answer \in WsAnswers /\ toDb' = toDb
                          /\ \/ toWs' = toWs
                             \/ /\ gCache \in Conns
                                /\ toWs' = [toWs EXCEPT ![gCache] = Append(@, answer)]
        /\ ~Cached(acc) => toWs' = toWs /\ (toDb' = toDb \/ toDb' = Append(toDb, one))
    BY <1>2, LoadPlayerInfoSends DEF InFirst
  <2> HIDE DEF answer, one
  <2>2. toWs \in [Conns -> Seq(WsAnswers)] /\ 1 \in Conns
    BY DEF InFirst, Base, QueuesOK
  <2>3. QED
    BY <2>1, <2>2
\* All the account's saves were read before: what is in redis is the last.
<1>5. wsSaved[acc] # 0 => Cached(acc) /\ playerInfo[acc] = wsSaved[acc]
  <2>1. SavesOK(acc)
    BY <1>3 DEF InFirst, FirstOK, AccountOK
  <2>2. Lacks(toCache[1], SavesOf(acc))
    BY <1>2, <1>3, <2>1 DEF SavesOK
  <2>3. QED
    BY <1>1, <1>2, <2>1, <2>2 DEF SavesOK, Cached
<1>6. /\ one.type = "REDIS_DB_LOADONEPLAYERINFO" /\ one.acc = acc
      /\ answer.acc = acc /\ answer.ver = playerInfo[acc]
  OBVIOUS
<1>7. /\ one \notin {DbQuit}
      /\ \A a \in Accounts : one \in LoginsOf(a) <=> a = acc
      /\ \A a \in Accounts : one \notin DbSavesOf(a)
  BY <1>4, <1>6, DbRequestKinds
<1> HIDE DEF acc, m, one, answer
<1>8. ASSUME NEW M, NEW N, one \notin M
      PROVE  /\ Lacks(toDb', M) <=> Lacks(toDb, M)
             /\ Preceded(toDb, M, N) => Preceded(toDb', M, N)
             /\ Apart(toDb, M, M) => Apart(toDb', M, M)
  <2> DEFINE grown == Append(toDb, one)
  <2>1. toDb \in Seq(DbRequests)
    BY FirstTypes
  <2>2. /\ Lacks(grown, M) <=> Lacks(toDb, M)
        /\ Preceded(toDb, M, N) => Preceded(grown, M, N)
        /\ Apart(toDb, M, M) => Apart(grown, M, M)
    BY <1>4, <1>8, <2>1, GrownQueue
  <2> HIDE DEF grown
  <2>3. toDb' = toDb \/ toDb' = grown
    BY <1>4 DEF grown
  <2>4. QED
    BY <2>2, <2>3
<1>9. QuitOK'
  BY <1>1, <1>2, <1>7, <1>8 DEF InFirst, FirstOK, QuitOK, Others
<1>10. ASSUME NEW a \in Accounts
       PROVE  AccountOK(a)'
  <2>0. LoginOK(a) /\ SavesOK(a) /\ EarlyOK(a) /\ SavedOK(a)
    BY DEF InFirst, FirstOK, AccountOK
  <2> DEFINE L == LoginsOf(a)
  <2>1. ASSUME a = acc
        PROVE  LoginOK(a)'
    <3>1. /\ ~Lacks(toCache[1], L) /\ Lacks(toCache'[1], L) /\ Apart(toCache'[1], L, L)
          /\ Lacks(toDb, L) /\ Lacks(fromDb, L) /\ Lacks(toWs[1], L)
      BY <1>2, <1>3, <2>0, <2>1 DEF LoginOK, OneLogin
    <3>2. \/ toDb' = toDb \/ Lacks(toWs'[1], L)
      BY <1>4, <3>1
    <3>3. Apart(toDb', L, L) /\ (Cached(acc) => toDb' = toDb)
      <4>1. toDb \in Seq(DbRequests)
        BY FirstTypes
      <4>2. Apart(toDb, L, L) /\ Apart(Append(toDb, one), L, L)
        BY <1>4, <3>1, <4>1, GrownQueue, NothingToOrder
      <4>3. QED
        BY <1>4, <4>2
    <3>4. Apart(toWs'[1], L, L)
      <4>1. toWs[1] \in Seq(WsAnswers)
        BY FirstTypes
      <4>2. Apart(toWs[1], L, L) /\ (answer \in WsAnswers => Apart(Append(toWs[1], answer), L, L))
        BY <3>1, <4>1, GrownQueue, NothingToOrder
      <4>3. QED
        BY <1>4, <4>2
    <3>5. OneLogin(L)'
      BY <1>1, <3>1, <3>2, <3>3, <3>4, NothingToOrder DEF OneLogin
    <3>6. ~((wsUp \/ wsConns = 0) /\ player[a] # "asked")
      BY <2>0, <2>1, <3>1 DEF LoginOK, NoLogin
    <3>7. ~Lacks(toDb', L) => wsSaved[a] = 0
      BY <1>5, <2>1, <3>1, <3>3
    <3>8. QED
      BY <1>1, <2>0, <2>1, <3>1, <3>5, <3>6, <3>7 DEF LoginOK, Others
  <2>2. ASSUME a # acc
        PROVE  LoginOK(a)'
    <3>1. /\ Lacks(toCache'[1], L) <=> Lacks(toCache[1], L)
          /\ Lacks(toDb', L) <=> Lacks(toDb, L)
          /\ Apart(toCache'[1], L, L) /\ Apart(toDb', L, L)
      BY <1>2, <1>3, <1>7, <1>8, <2>0, <2>2 DEF LoginOK, OneLogin
    <3>2. Apart(toWs'[1], L, L) /\ (Lacks(toWs'[1], L) <=> Lacks(toWs[1], L))
      <4>1. toWs[1] \in Seq(WsAnswers) /\ Apart(toWs[1], L, L)
        BY <2>0, FirstTypes DEF LoginOK, OneLogin
      <4>2. answer \in WsAnswers => answer \notin L
        BY <1>6, <2>2, WsAnswerKinds
      <4>3. answer \in WsAnswers =>
              /\ Apart(Append(toWs[1], answer), L, L)
              /\ Lacks(Append(toWs[1], answer), L) <=> Lacks(toWs[1], L)
        BY <4>1, <4>2, GrownQueue
      <4>4. QED
        BY <1>4, <4>1, <4>3
    <3>3. QED
      BY <1>1, <2>0, <3>1, <3>2 DEF LoginOK, OneLogin, NoLogin, Others
  <2>3. SavesOK(a)'
    <3>1. Lacks(toWs'[1], StaleAnswersOf(a, wsSaved[a]))
      <4>1. toWs[1] \in Seq(WsAnswers)
        BY FirstTypes
      <4>2. Cached(acc) => answer \notin StaleAnswersOf(a, wsSaved[a])
        <5>1. Cached(acc) /\ a = acc => answer.ver >= wsSaved[a]
          BY <1>5, <1>6, FirstTypes DEF Cached
        <5>2. Cached(acc) => answer.ver \in Nat /\ wsSaved[a] \in Nat
          BY <1>6, FirstTypes DEF Cached
        <5>3. QED
          BY <1>6, <5>1, <5>2 DEF StaleAnswersOf, LoginsOf
      <4>3. Cached(acc) => Lacks(Append(toWs[1], answer), StaleAnswersOf(a, wsSaved[a]))
        <5>1. Lacks(toWs[1], StaleAnswersOf(a, wsSaved[a]))
          BY <2>0 DEF SavesOK
        <5>2. Cached(acc) => answer \in WsAnswers
          BY <1>4
        <5>3. QED
          BY <4>1, <4>2, <5>1, <5>2, GrownQueue
      <4>4. QED
        BY <1>4, <2>0, <4>3 DEF SavesOK
    <3>2. QED
      BY <1>1, <1>2, <1>3, <2>0, <3>1 DEF SavesOK, Others
  <2>4. EarlyOK(a)'
    BY <1>1 DEF EarlyOK, Others
  <2>5. SavedOK(a)'
    <3>1. one \notin StaleSavesOf(a, wsSaved[a])
      BY <1>7 DEF StaleSavesOf
    <3>2. QED
      BY <1>1, <1>7, <1>8, <2>0, <3>1 DEF SavedOK, Others
  <2>6. QED
    BY <2>1, <2>2, <2>3, <2>4, <2>5 DEF AccountOK
<1>11. QED
  BY <1>9, <1>10 DEF FirstOK

LEMMA SaveAllCacheToDbFirst ==
  ASSUME InFirst, NEW c \in Conns, SaveAllCacheToDb(c)
  PROVE  FirstOK'
<1> DEFINE m == Head(toCache[1])
<1>1. /\ HasRequest(c) /\ Taken(c) /\ loadFinish /\ redisOk
      /\ UNCHANGED <<fromDb, toWs, Others>>
  BY DEF SaveAllCacheToDb, Request, Others
<1>2. /\ c = 1 /\ Live /\ Live' /\ m \in WsRequests
      /\ \A M : Lacks(toCache[1], M) <=> m \notin M /\ Lacks(toCache'[1], M)
      /\ \A M, N : Apart(toCache[1], M, N) => /\ Apart(toCache'[1], M, N)
                                              /\ m \in M => Lacks(toCache'[1], N)
      /\ \A M, N : Followed(toCache[1], M, N) => Followed(toCache'[1], M, N)
      /\ toCache'[1] \in Seq(WsRequests)
  BY <1>1, RequestFirst DEF Live, Running, Others
<1>3. /\ m \in {Quit} /\ \A a \in Accounts : m \notin SavesOf(a)
  BY <1>2, WsRequestKinds DEF SaveAllCacheToDb, Request
<1> HIDE DEF m
<1>4. /\ wsQuit /\ Lacks(toCache'[1], WsRequests)
  BY <1>2, <1>3 DEF InFirst, FirstOK, QuitOK
<1>5. PICK order \in SetToSeqs(DOMAIN playerInfo) : SendToDb(SaveAll(order))
  BY DEF SaveAllCacheToDb
<1> DEFINE all == SaveAll(order)
           n == Len(order)
<1>6. \A i \in 1..n : /\ all[i].type = "REDIS_2_DB_SAVEPLAYERINFO"
                      /\ all[i].acc = order[i]
  <2>1. SUFFICES ASSUME NEW i \in 1..n
                 PROVE  all[i].type = "REDIS_2_DB_SAVEPLAYERINFO" /\ all[i].acc = order[i]
    OBVIOUS
  <2>2. all[i] = Msg("REDIS_2_DB_SAVEPLAYERINFO", order[i], playerInfo[order[i]], FALSE)
    BY SaveAllCacheToDbSends DEF InFirst
  <2> HIDE DEF all
  <2>3. QED
    BY <2>2
<1>7. /\ all \in Seq(DbRequests) /\ n \in Nat /\ Len(all) = n + 1
      /\ \A a \in DOMAIN playerInfo : \E i \in 1..n : order[i] = a
  BY SaveAllCacheToDbSends DEF InFirst
<1>8. \A i \in 1..Len(all) :
        /\ all[i] \in DbRequests
        /\ all[i].type \in {"REDIS_2_DB_SAVEPLAYERINFO", "REDIS_DB_QUIT"}
        /\ all[i].type = "REDIS_2_DB_SAVEPLAYERINFO"
             => all[i].acc \in DOMAIN playerInfo /\ all[i].ver = playerInfo[all[i].acc]
  BY SaveAllKinds DEF InFirst
<1>9. toDb \in Seq(DbRequests) /\ (toDb' = toDb \/ toDb' = toDb \o all)
  BY <1>5, FirstTypes DEF SendToDb
<1> HIDE DEF all, n
<1>10. QuitOK'
  BY <1>1, <1>2, <1>4 DEF InFirst, FirstOK, QuitOK, Others
<1>11. ASSUME NEW a \in Accounts
       PROVE  AccountOK(a)'
  <2>0. LoginOK(a) /\ SavesOK(a) /\ EarlyOK(a) /\ SavedOK(a)
    BY DEF InFirst, FirstOK, AccountOK
  <2>1. Lacks(toCache[1], SavesOf(a))
    <3>1. Lacks(toCache'[1], SavesOf(a))
      <4>1. SavesOf(a) \cap WsRequests \subseteq WsRequests
        OBVIOUS
      <4>2. QED
        BY <1>2, <1>4, <4>1, Fewer
    <3>2. QED
      BY <1>2, <1>3, <3>1
  <2>2. wsSaved[a] # 0 => a \in DOMAIN playerInfo /\ playerInfo[a] = wsSaved[a]
    BY <1>1, <1>2, <2>0, <2>1 DEF SavesOK
  <2>3. Lacks(all, LoginsOf(a)) /\ Lacks(all, StaleSavesOf(a, wsSaved[a]))
    <3>1. \A i \in 1..Len(all) : all[i] \notin LoginsOf(a)
      BY <1>8, DbRequestKinds
    <3>2. ASSUME NEW i \in 1..Len(all), all[i] \in StaleSavesOf(a, wsSaved[a])
          PROVE  FALSE
      <4>1. /\ all[i].type = "REDIS_2_DB_SAVEPLAYERINFO" /\ all[i].acc = a
            /\ all[i].ver < wsSaved[a]
        BY <3>2 DEF StaleSavesOf, DbSavesOf
      <4>2. a \in DOMAIN playerInfo /\ all[i].ver = playerInfo[a]
        BY <1>8, <4>1
      <4>3. playerInfo[a] \in Nat /\ wsSaved[a] \in Nat
        BY <4>2, FirstTypes
      <4>4. QED
        BY <2>2, <4>1, <4>2, <4>3
    <3>3. QED
      BY <3>1, <3>2 DEF Lacks
  <2>4. /\ Lacks(toDb', LoginsOf(a)) <=> Lacks(toDb, LoginsOf(a))
        /\ Apart(toDb', LoginsOf(a), LoginsOf(a))
        /\ Lacks(toDb', StaleSavesOf(a, wsSaved[a]))
    <3>1. /\ Lacks(toDb \o all, LoginsOf(a)) <=> Lacks(toDb, LoginsOf(a))
          /\ Lacks(toDb \o all, StaleSavesOf(a, wsSaved[a]))
      BY <1>7, <1>9, <2>0, <2>3, JoinedQueues DEF SavedOK
    <3>2. Apart(toDb, LoginsOf(a), LoginsOf(a)) /\ Apart(all, LoginsOf(a), LoginsOf(a))
      BY <2>0, <2>3, NothingToOrder DEF LoginOK, OneLogin
    <3>3. Apart(toDb \o all, LoginsOf(a), LoginsOf(a))
      BY <1>7, <1>9, <2>3, <3>2, JoinedQueues
    <3>4. QED
      BY <1>9, <2>0, <3>1, <3>2, <3>3 DEF SavedOK
  <2>5. database[a] >= wsSaved[a] \/ Preceded(toDb', {DbQuit}, DbSavesOf(a))
    <3>1. CASE wsSaved[a] = 0
      BY <3>1, FirstTypes
    <3>2. CASE wsSaved[a] # 0 /\ ~(database[a] >= wsSaved[a])
      <4>1. PICK j \in 1..n : order[j] = a
        BY <1>7, <2>2, <3>2
      <4>2. j \in 1..Len(all) /\ all[j] \in DbSavesOf(a)
        <5>1. j \in 1..Len(all) /\ all[j].type = "REDIS_2_DB_SAVEPLAYERINFO" /\ all[j].acc = a
          BY <1>6, <1>7, <4>1
        <5>2. QED
          BY <1>8, <5>1, DbRequestKinds
      <4>3. \A i \in 1..n : all[i] \notin {DbQuit}
        BY <1>6 DEF DbQuit
      <4>4. Preceded(all, {DbQuit}, DbSavesOf(a))
        <5>1. \A i \in 1..Len(all) : all[i] \in {DbQuit} => j < i
          BY <1>7, <4>3
        <5>2. QED
          BY <4>2, <5>1 DEF Preceded
      <4>5. Preceded(toDb, {DbQuit}, DbSavesOf(a))
        BY <2>0, <3>2 DEF SavedOK
      <4>6. Preceded(toDb \o all, {DbQuit}, DbSavesOf(a))
        BY <1>7, <1>9, <4>4, <4>5, JoinedQueues
      <4>7. QED
        BY <1>9, <4>5, <4>6
    <3>3. QED
      BY <3>1, <3>2
  <2>6. LoginOK(a)'
    BY <1>1, <1>2, <2>0, <2>4 DEF LoginOK, OneLogin, NoLogin, Others
  <2>7. SavesOK(a)'
    BY <1>1, <1>2, <1>3, <2>0 DEF SavesOK, Others
  <2>8. EarlyOK(a)' /\ SavedOK(a)'
    BY <1>1, <1>4, <2>0, <2>4, <2>5 DEF EarlyOK, SavedOK, Others
  <2>9. QED
    BY <2>6, <2>7, <2>8 DEF AccountOK
<1>12. QED
  BY <1>10, <1>11 DEF FirstOK

LEMMA RedisLostRestartFirst ==
  ASSUME InFirst, RedisLost \/ Restart
  PROVE  FirstOK'
<1>1. /\ UNCHANGED <<toDb, fromDb, toCache, toWs, playerInfo, database, wsSock>>
      /\ UNCHANGED <<wsConns, wsUp, player, wsSaved, wsQuit, quitSaved>>
      /\ process' # process => process' = "running"
  BY DEF RedisLost, Restart
<1>2. Live' => Live /\ ~redisOk' /\ loadFinish' = loadFinish
  BY DEF InFirst, Base, LinksOK, Live, Running, RedisLost, Restart
<1>3. QuitOK'
  BY <1>1 DEF InFirst, FirstOK, QuitOK
<1>4. ASSUME NEW a \in Accounts
      PROVE  AccountOK(a)'
  <2>0. LoginOK(a) /\ SavesOK(a) /\ EarlyOK(a) /\ SavedOK(a)
    BY DEF InFirst, FirstOK, AccountOK
  <2>1. LoginOK(a)'
    BY <1>1, <2>0 DEF LoginOK, OneLogin, NoLogin
  <2>2. SavesOK(a)'
    BY <1>1, <1>2, <2>0 DEF SavesOK
  <2>3. EarlyOK(a)' /\ SavedOK(a)'
    BY <1>1, <1>2, <2>0 DEF EarlyOK, SavedOK
  <2>4. QED
    BY <2>1, <2>2, <2>3 DEF AccountOK
<1>5. QED
  BY <1>3, <1>4 DEF FirstOK

LEMMA DbServeFirst ==
  ASSUME InFirst, DbServe
  PROVE  FirstOK'
<1> DEFINE m == Head(toDb)
<1>1. /\ toDb # <<>> /\ toDb' = Tail(toDb)
      /\ UNCHANGED <<toCache, toWs, process, loadFinish, redisOk, playerInfo, wsSock>>
      /\ UNCHANGED <<wsConns, wsUp, player, wsSaved, wsQuit, quitSaved>>
  BY DEF DbServe
<1>2. /\ m \in DbRequests
      /\ \A M : Lacks(toDb, M) <=> m \notin M /\ Lacks(toDb', M)
      /\ \A M, N : Apart(toDb, M, N) => /\ Apart(toDb', M, N)
                                        /\ m \in M => Lacks(toDb', N)
      /\ \A M, N : Preceded(toDb, M, N) => /\ m \notin M
                                           /\ m \notin N => Preceded(toDb', M, N)
  <2> DEFINE q == toDb
  <2>1. q \in Seq(DbRequests) /\ q # <<>> /\ toDb' = Tail(q)
    BY <1>1, FirstTypes
  <2> HIDE DEF q
  <2>2. ASSUME NEW M, NEW N
        PROVE  /\ Head(q) \in DbRequests
               /\ Lacks(q, M) <=> Head(q) \notin M /\ Lacks(Tail(q), M)
               /\ Apart(q, M, N) => /\ Apart(Tail(q), M, N)
                                    /\ Head(q) \in M => Lacks(Tail(q), N)
               /\ Preceded(q, M, N) => /\ Head(q) \notin M
                                       /\ Head(q) \notin N => Preceded(Tail(q), M, N)
    BY <2>1, TakenQueue
  <2>3. QED
    BY <2>1, <2>2 DEF q
<1>3. /\ m \in {DbQuit} <=> m.type = "REDIS_DB_QUIT"
      /\ \A a \in Accounts :
           /\ m \in LoginsOf(a) <=> m.type = "REDIS_DB_LOADONEPLAYERINFO" /\ m.acc = a
           /\ m \in DbSavesOf(a) <=> m.type = "REDIS_2_DB_SAVEPLAYERINFO" /\ m.acc = a
  BY <1>2, DbRequestKinds
<1>4. Live' <=> Live
  BY <1>1 DEF Live, Running
\* What the database sends: the records of a load and ALLLOADFINISH, the record
\* of a login, the answer to QUIT, or nothing.
<1>5. ASSUME NEW M, M \cap LoadRecords = {}, Finish \notin M,
             m.type # "REDIS_DB_QUIT" \/ QuitAnswer \notin M,
             \A x \in M : x.login => m.type # "REDIS_DB_LOADONEPLAYERINFO" \/ x.acc # m.acc
      PROVE  /\ Lacks(fromDb', M) <=> Lacks(fromDb, M)
             /\ Apart(fromDb, M, M) => Apart(fromDb', M, M)
  <2>0. fromDb \in Seq(DbAnswers) /\ Finish \in DbAnswers /\ QuitAnswer \in DbAnswers
    BY FirstTypes DEF DbAnswers
  <2>1. CASE m.type = "REDIS_2_DB_ALLPLAYERINFO"
    <3>1. PICK r \in Seq(DbAnswers) :
            /\ \A i \in 1..Len(r) : r[i] \in LoadRecords
            /\ fromDb' = Append(fromDb \o r, Finish)
      BY <2>1, DbServeFacts DEF InFirst, Current
    <3>2. Lacks(r, M)
      BY <1>5, <3>1 DEF Lacks
    <3>3. /\ fromDb \o r \in Seq(DbAnswers)
          /\ Lacks(fromDb \o r, M) <=> Lacks(fromDb, M)
          /\ Apart(fromDb, M, M) => Apart(fromDb \o r, M, M)
      BY <2>0, <3>2, NothingToOrder, JoinedQueues
    <3>4. QED
      BY <1>5, <2>0, <3>1, <3>3, GrownQueue
  <2>2. CASE m.type \in {"REDIS_DB_LOADONEPLAYERINFO", "REDIS_DB_QUIT"}
    <3>1. PICK answer \in DbAnswers : fromDb' = Append(fromDb, answer) /\ answer \notin M
      <4>1. CASE m.type = "REDIS_DB_QUIT"
        BY <1>5, <2>0, <4>1, DbServeFacts DEF InFirst
      <4>2. CASE m.type = "REDIS_DB_LOADONEPLAYERINFO"
        <5>1. PICK answer \in DbAnswers : /\ fromDb' = Append(fromDb, answer)
                                         /\ answer.login /\ answer.acc = m.acc
          BY <4>2, DbServeFacts DEF InFirst
        <5>2. QED
          BY <1>5, <4>2, <5>1
      <4>3. QED
        BY <2>2, <4>1, <4>2
    <3>2. QED
      BY <2>0, <3>1, GrownQueue
  <2>3. CASE m.type = "REDIS_2_DB_SAVEPLAYERINFO"
    BY <2>3, DbServeFacts DEF InFirst
  <2>4. QED
    BY <1>2, <2>1, <2>2, <2>3, DbRequestKinds
<1>6. /\ m.type # "REDIS_2_DB_SAVEPLAYERINFO" => database' = database
      /\ m.type = "REDIS_2_DB_SAVEPLAYERINFO" => database' = [database EXCEPT ![m.acc] = m.ver]
  BY DbServeFacts DEF InFirst
<1> HIDE DEF m
<1>7. m.type # "REDIS_DB_QUIT" => (Lacks(fromDb', {QuitAnswer}) <=> Lacks(fromDb, {QuitAnswer}))
  <2>1. /\ QuitAnswer \notin LoadRecords /\ Finish # QuitAnswer /\ ~QuitAnswer.login
    BY DEF QuitAnswer, Finish, LoadRecords
  <2>2. QED
    BY <1>5, <2>1
<1>8. QuitOK'
  BY <1>1, <1>2, <1>3, <1>7 DEF InFirst, FirstOK, QuitOK
<1>9. ASSUME NEW a \in Accounts
      PROVE  AccountOK(a)'
  <2>0. LoginOK(a) /\ SavesOK(a) /\ EarlyOK(a) /\ SavedOK(a)
    BY DEF InFirst, FirstOK, AccountOK
  <2> DEFINE L == LoginsOf(a)
  <2>1. m \notin L => /\ Lacks(fromDb', L) <=> Lacks(fromDb, L)
                     /\ Apart(fromDb', L, L)
    <3>1. L \cap LoadRecords = {} /\ Finish \notin L /\ QuitAnswer \notin L
      BY DEF LoginsOf, LoadRecords, Finish, QuitAnswer
    <3>2. m \notin L => \A x \in L : m.type # "REDIS_DB_LOADONEPLAYERINFO" \/ x.acc # m.acc
      BY <1>3 DEF LoginsOf
    <3>3. Apart(fromDb, L, L)
      BY <2>0 DEF LoginOK, OneLogin
    <3> HIDE DEF L
    <3>4. QED
      BY <1>5, <3>1, <3>2, <3>3
  <2>2. LoginOK(a)'
    <3>1. CASE m \in L
      <4>1. /\ ~Lacks(toDb, L) /\ Lacks(toDb', L) /\ Apart(toDb', L, L)
            /\ Lacks(toCache[1], L) /\ Lacks(fromDb, L) /\ Lacks(toWs[1], L)
        BY <1>2, <2>0, <3>1 DEF LoginOK, OneLogin
      <4>2. Apart(fromDb', L, L)
        <5>1. PICK answer \in DbAnswers : fromDb' = Append(fromDb, answer)
          BY <1>3, <3>1, DbServeFacts DEF InFirst, m
        <5>2. fromDb \in Seq(DbAnswers) /\ Apart(fromDb, L, L)
          BY <4>1, FirstTypes, NothingToOrder
        <5>3. QED
          BY <4>1, <5>1, <5>2, GrownQueue
      <4>3. OneLogin(L)'
        BY <1>1, <2>0, <4>1, <4>2 DEF LoginOK, OneLogin
      <4>4. wsSaved[a] = 0 /\ ~((wsUp \/ wsConns = 0) /\ player[a] # "asked")
        BY <2>0, <4>1 DEF LoginOK, NoLogin
      <4>5. QED
        BY <1>1, <2>0, <4>1, <4>3, <4>4 DEF LoginOK
    <3>2. CASE m \notin L
      BY <1>1, <1>2, <2>0, <2>1, <3>2 DEF LoginOK, OneLogin, NoLogin
    <3>3. QED
      BY <3>1, <3>2
  <2>3. SavesOK(a)'
    BY <1>1, <1>4, <2>0 DEF SavesOK
  <2>4. EarlyOK(a)'
    BY <1>1, <1>2, <1>4, <2>0, <2>1 DEF EarlyOK
  <2>5. SavedOK(a)'
    <3>1. Lacks(toDb', StaleSavesOf(a, wsSaved[a])) /\ (~wsQuit => Lacks(toDb', DbSavesOf(a)))
      BY <1>2, <2>0 DEF SavedOK
    <3>2. CASE m \in DbSavesOf(a)
      <4>1. m \notin StaleSavesOf(a, wsSaved[a]) /\ m.ver \in Nat /\ wsSaved[a] \in Nat
        BY <1>2, <2>0, DbRequestKinds, MessageFields, FirstTypes, ConstantsAssumption
           DEF SavedOK, Versions
      <4>2. m.ver >= wsSaved[a]
        BY <3>2, <4>1 DEF StaleSavesOf
      <4>3. database'[a] = m.ver
        BY <1>3, <1>6, <3>2 DEF InFirst, Base, TypeOK
      <4>4. QED
        BY <1>1, <3>1, <4>2, <4>3 DEF SavedOK
    <3>3. CASE m \notin DbSavesOf(a)
      <4>1. database'[a] = database[a]
        BY <1>2, <1>3, <1>6, <3>3 DEF InFirst, Base, TypeOK
      <4>2. database'[a] >= wsSaved[a] \/ Preceded(toDb', {DbQuit}, DbSavesOf(a))
        BY <1>2, <2>0, <3>3, <4>1 DEF SavedOK
      <4>3. m.type = "REDIS_DB_QUIT" => database[a] >= wsSaved[a]
        BY <1>2, <1>3, <2>0 DEF SavedOK
      <4>4. QED
        BY <1>1, <1>7, <2>0, <3>1, <4>1, <4>2, <4>3 DEF SavedOK
    <3>4. QED
      BY <3>2, <3>3
  <2>6. QED
    BY <2>2, <2>3, <2>4, <2>5 DEF AccountOK
<1>10. QED
  BY <1>8, <1>9 DEF FirstOK

LEMMA WsConnectFirst ==
  ASSUME InFirst, WsConnect, wsConns' <= 1
  PROVE  FirstOK'
<1>1. /\ wsConns = 0 /\ wsConns' = 1 /\ wsUp'
      /\ UNCHANGED <<toDb, fromDb, toCache, toWs, process, loadFinish, redisOk>>
      /\ UNCHANGED <<playerInfo, database, player, wsSaved, wsQuit, quitSaved>>
  BY FirstTypes DEF WsConnect
<1>2. toCache[1] = <<>> /\ toWs[1] = <<>>
  BY <1>1, FirstTypes
<1>3. ~wsQuit
  BY <1>1 DEF InFirst, FirstOK, QuitOK
<1>4. QuitOK'
  BY <1>1, <1>3 DEF InFirst, FirstOK, QuitOK
<1>5. ASSUME NEW a \in Accounts
      PROVE  AccountOK(a)'
  <2>0. LoginOK(a) /\ SavesOK(a) /\ EarlyOK(a) /\ SavedOK(a)
    BY DEF InFirst, FirstOK, AccountOK
  <2>1. player[a] = "out" /\ wsSaved[a] = 0 /\ NoLogin(LoginsOf(a))
    BY <1>1, <2>0 DEF LoginOK
  <2>2. LoginOK(a)'
    BY <1>1, <2>0, <2>1 DEF LoginOK, OneLogin, NoLogin
  <2>3. SavesOK(a)' /\ EarlyOK(a)'
    BY <1>1, <2>0, <2>1 DEF SavesOK, EarlyOK, NoLogin
  <2>4. SavedOK(a)'
    BY <1>1, <2>0 DEF SavedOK
  <2>5. QED
    BY <2>2, <2>3, <2>4 DEF AccountOK
<1>6. QED
  BY <1>4, <1>5 DEF FirstOK

LEMMA WsDropFirst ==
  ASSUME InFirst, WsDrop
  PROVE  FirstOK'
<1>1. /\ wsConns = 1 /\ wsConns' = 1 /\ ~wsUp' /\ toWs'[1] = <<>>
      /\ \A a \in Accounts : player'[a] = "out"
      /\ UNCHANGED <<toDb, fromDb, toCache, process, loadFinish, redisOk>>
      /\ UNCHANGED <<playerInfo, database, wsSock, wsSaved, wsQuit, quitSaved>>
  BY FirstTypes DEF WsDrop, InFirst, Base, QueuesOK
<1>2. Live' <=> Live
  BY <1>1 DEF Live, Running
<1>3. QuitOK'
  BY <1>1 DEF InFirst, FirstOK, QuitOK
<1>4. ASSUME NEW a \in Accounts
      PROVE  AccountOK(a)'
  <2>0. LoginOK(a) /\ SavesOK(a) /\ EarlyOK(a) /\ SavedOK(a)
    BY DEF InFirst, FirstOK, AccountOK
  <2>1. LoginOK(a)'
    BY <1>1, <2>0, EmptyQueue DEF LoginOK, OneLogin
  <2>2. SavesOK(a)' /\ EarlyOK(a)'
    BY <1>1, <1>2, <2>0, EmptyQueue DEF SavesOK, EarlyOK
  <2>3. SavedOK(a)'
    BY <1>1, <2>0 DEF SavedOK
  <2>4. QED
    BY <2>1, <2>2, <2>3 DEF AccountOK
<1>5. QED
  BY <1>3, <1>4 DEF FirstOK

\* The answer of a login, at the head of what the world server receives.
LEMMA WsReceiveFacts ==
  ASSUME InFirst, WsReceive
  PROVE  LET m == Head(toWs[1]) IN
         /\ wsConns = 1 /\ m \in WsAnswers /\ m.ver \in Nat /\ m.acc \in Accounts
         /\ \A a \in Accounts : m \in LoginsOf(a) <=> a = m.acc
         /\ toWs'[1] = Tail(toWs[1])
         /\ \A M : Lacks(toWs[1], M) <=> m \notin M /\ Lacks(toWs'[1], M)
         /\ \A M, N : Apart(toWs[1], M, N) => /\ Apart(toWs'[1], M, N)
                                              /\ m \in M => Lacks(toWs'[1], N)
         /\ \A a \in Accounts : player'[a] # player[a] => a = m.acc /\ player'[a] = "in"
<1> DEFINE q == toWs[1]
           m == Head(q)
<1>1. wsConns = 1 /\ q \in Seq(WsAnswers) /\ q # <<>>
  BY FirstTypes DEF WsReceive
<1>2. toWs'[1] = Tail(q)
  BY <1>1 DEF WsReceive, InFirst, Base, QueuesOK
<1>3. \A a \in Accounts : player'[a] # player[a] => a = m.acc /\ player'[a] = "in"
  BY <1>1 DEF WsReceive, InFirst, Base, TypeOK
<1> HIDE DEF q
<1>4. ASSUME NEW M, NEW N
      PROVE  /\ m \in WsAnswers
             /\ Lacks(q, M) <=> m \notin M /\ Lacks(Tail(q), M)
             /\ Apart(q, M, N) => Apart(Tail(q), M, N) /\ (m \in M => Lacks(Tail(q), N))
  BY <1>1, TakenQueue
<1> HIDE DEF m
<1>5. m \in WsAnswers
  BY <1>4
<1>6. m.ver \in Nat /\ m.acc \in Accounts /\ \A a \in Accounts : m \in LoginsOf(a) <=> a = m.acc
  BY <1>5, WsAnswerKinds, MessageFields, ConstantsAssumption DEF Versions
<1>7. /\ \A M : Lacks(q, M) <=> m \notin M /\ Lacks(toWs'[1], M)
      /\ \A M, N : Apart(q, M, N) => Apart(toWs'[1], M, N) /\ (m \in M => Lacks(toWs'[1], N))
  BY <1>2, <1>4
<1>8. QED
  BY <1>1, <1>2, <1>3, <1>5, <1>6, <1>7 DEF q, m

LEMMA WsReceiveFirst ==
  ASSUME InFirst, WsReceive
  PROVE  FirstOK'
<1> DEFINE m == Head(toWs[1])
<1>1. /\ UNCHANGED <<toDb, fromDb, toCache, process, loadFinish, redisOk, wsUp, wsConns>>
      /\ UNCHANGED <<playerInfo, database, wsSock, wsSaved, wsQuit, quitSaved>>
  BY DEF WsReceive
<1>2. /\ wsConns = 1 /\ m \in WsAnswers
      /\ \A a \in Accounts : m \in LoginsOf(a) <=> a = m.acc
      /\ \A M : Lacks(toWs[1], M) <=> m \notin M /\ Lacks(toWs'[1], M)
      /\ \A M, N : Apart(toWs[1], M, N) => /\ Apart(toWs'[1], M, N)
                                           /\ m \in M => Lacks(toWs'[1], N)
      /\ \A a \in Accounts : player'[a] # player[a] => a = m.acc /\ player'[a] = "in"
  BY WsReceiveFacts
<1> HIDE DEF m
<1>3. Live' <=> Live
  BY <1>1 DEF Live, Running
<1>4. QuitOK'
  BY <1>1 DEF InFirst, FirstOK, QuitOK
<1>5. ASSUME NEW a \in Accounts
      PROVE  AccountOK(a)'
  <2>0. LoginOK(a) /\ SavesOK(a) /\ EarlyOK(a) /\ SavedOK(a)
    BY DEF InFirst, FirstOK, AccountOK
  <2>1. a = m.acc => /\ ~Lacks(toWs[1], LoginsOf(a))
                     /\ NoLogin(LoginsOf(a))'
    BY <1>1, <1>2, <2>0 DEF LoginOK, OneLogin, NoLogin
  <2>2. LoginOK(a)'
    BY <1>1, <1>2, <2>0, <2>1 DEF LoginOK, OneLogin, NoLogin
  <2>3. SavesOK(a)'
    BY <1>1, <1>2, <1>3, <2>0 DEF SavesOK
  <2>4. EarlyOK(a)'
    BY <1>1, <1>2, <1>3, <2>0, <2>1 DEF EarlyOK
  <2>5. SavedOK(a)'
    BY <1>1, <2>0 DEF SavedOK
  <2>6. QED
    BY <2>2, <2>3, <2>4, <2>5 DEF AccountOK
<1>6. QED
  BY <1>4, <1>5 DEF FirstOK

\* What the world server sends comes behind what it has sent.
LEMMA SentFirst ==
  ASSUME InFirst, WsCanSend, NEW msg \in WsRequests, WsSend(msg)
  PROVE  /\ wsConns = 1 /\ wsUp /\ ~wsQuit /\ wsSock[1] \in {"backlog", "open"} /\ Live
         /\ \A M : Lacks(toCache'[1], M) <=> Lacks(toCache[1], M) /\ msg \notin M
         /\ \A M, N : /\ Apart(toCache[1], M, N) /\ (msg \in N => Lacks(toCache[1], M))
                           => Apart(toCache'[1], M, N)
                      /\ (Followed(toCache[1], M, N) \/ msg \in N) /\ msg \notin M
                           => Followed(toCache'[1], M, N)
<1>1. /\ wsConns = 1 /\ wsUp /\ ~wsQuit /\ wsSock[1] \in {"backlog", "open"}
      /\ toCache' = [toCache EXCEPT ![1] = Append(toCache[1], msg)]
  BY FirstTypes, WsSends DEF WsCanSend, InFirst
<1>2. Live
  BY <1>1 DEF Live, InFirst, Base, LinksOK
<1> DEFINE q == toCache[1]
<1>3. q \in Seq(WsRequests) /\ toCache'[1] = Append(q, msg)
  BY <1>1, FirstTypes DEF InFirst, Base, QueuesOK
<1> HIDE DEF q
<1>4. ASSUME NEW M, NEW N
      PROVE  /\ Lacks(Append(q, msg), M) <=> Lacks(q, M) /\ msg \notin M
             /\ Apart(q, M, N) /\ (msg \in N => Lacks(q, M)) => Apart(Append(q, msg), M, N)
             /\ (Followed(q, M, N) \/ msg \in N) /\ msg \notin M
                  => Followed(Append(q, msg), M, N)
  BY <1>3, GrownQueue
<1>5. /\ \A M : Lacks(toCache'[1], M) <=> Lacks(q, M) /\ msg \notin M
      /\ \A M, N : /\ Apart(q, M, N) /\ (msg \in N => Lacks(q, M))
                        => Apart(toCache'[1], M, N)
                   /\ (Followed(q, M, N) \/ msg \in N) /\ msg \notin M
                        => Followed(toCache'[1], M, N)
  BY <1>3, <1>4
<1>6. QED
  BY <1>1, <1>2, <1>5 DEF q

LEMMA WsLoginFirst ==
  ASSUME InFirst, NEW b \in Accounts, WsLogin(b)
  PROVE  FirstOK'
<1> DEFINE msg == Msg("WS_REDIS_LOADPLAYERINFO", b, 0, TRUE)
<1>1. /\ WsCanSend /\ WsSend(msg) /\ player[b] = "out"
      /\ UNCHANGED <<toDb, fromDb, toWs, process, loadFinish, redisOk, wsUp, wsConns>>
      /\ UNCHANGED <<playerInfo, database, wsSock, wsSaved, wsQuit, quitSaved>>
  BY DEF WsLogin
<1>2. \A a \in Accounts : player'[a] = IF a = b THEN "asked" ELSE player[a]
  BY DEF WsLogin, InFirst, Base, TypeOK
<1>3. msg \in WsRequests /\ msg.type = "WS_REDIS_LOADPLAYERINFO" /\ msg.acc = b
  BY WsRequestsOK, ZeroVersion
<1>4. /\ msg \notin {Quit}
      /\ \A a \in Accounts : /\ msg \in LoginsOf(a) <=> a = b
                             /\ msg \notin SavesOf(a)
  BY <1>3, WsRequestKinds
<1> HIDE DEF msg
<1>5. /\ wsConns = 1 /\ wsUp /\ ~wsQuit
      /\ \A M : Lacks(toCache'[1], M) <=> Lacks(toCache[1], M) /\ msg \notin M
      /\ \A M, N : /\ Apart(toCache[1], M, N) /\ (msg \in N => Lacks(toCache[1], M))
                        => Apart(toCache'[1], M, N)
                   /\ (Followed(toCache[1], M, N) \/ msg \in N) /\ msg \notin M
                        => Followed(toCache'[1], M, N)
  BY <1>1, <1>3, SentFirst
<1>6. Live' <=> Live
  BY <1>1 DEF Live, Running
<1>7. QuitOK'
  <2>1. Lacks(toCache[1], {Quit}) /\ Apart(toCache[1], {Quit}, WsRequests)
    BY <1>5 DEF InFirst, FirstOK, QuitOK
  <2>2. Lacks(toCache'[1], {Quit}) /\ Apart(toCache'[1], {Quit}, WsRequests)
    BY <1>4, <1>5, <2>1
  <2>3. QED
    BY <1>1, <2>2 DEF InFirst, FirstOK, QuitOK
<1>8. ASSUME NEW a \in Accounts
      PROVE  AccountOK(a)'
  <2>0. LoginOK(a) /\ SavesOK(a) /\ EarlyOK(a) /\ SavedOK(a)
    BY DEF InFirst, FirstOK, AccountOK
  <2>1. a = b => NoLogin(LoginsOf(a))
    BY <1>1, <1>5, <2>0 DEF LoginOK
  <2> DEFINE L == LoginsOf(a)
  <2>2. LoginOK(a)'
    <3>1. Apart(toCache[1], L, L) /\ (a = b => Lacks(toCache[1], L))
      BY <2>0, <2>1 DEF LoginOK, OneLogin, NoLogin
    <3>2. Apart(toCache'[1], L, L)
      BY <1>4, <1>5, <3>1
    <3>3. Lacks(toCache'[1], L) <=> Lacks(toCache[1], L) /\ a # b
      BY <1>4, <1>5
    <3>4. QED
      BY <1>1, <1>2, <1>5, <2>0, <2>1, <3>2, <3>3 DEF LoginOK, OneLogin, NoLogin
  <2>3. SavesOK(a)'
    <3>1. msg \notin OlderOf(a, wsSaved[a])
      BY <1>4 DEF OlderOf
    <3>2. /\ Apart(toCache[1], L, SavesOf(a))
          /\ Followed(toCache[1], OlderOf(a, wsSaved[a]), SavesOf(a))
      BY <2>0 DEF SavesOK
    <3>3. Followed(toCache'[1], OlderOf(a, wsSaved[a]), SavesOf(a))
      BY <1>5, <3>1, <3>2
    <3>4. Apart(toCache'[1], L, SavesOf(a))
      BY <1>4, <1>5, <3>2
    <3>5. Lacks(toCache'[1], SavesOf(a)) <=> Lacks(toCache[1], SavesOf(a))
      BY <1>4, <1>5
    <3>6. QED
      BY <1>1, <1>6, <2>0, <3>3, <3>4, <3>5 DEF SavesOK
  <2>4. EarlyOK(a)'
    BY <1>1, <1>2, <1>6, <2>0 DEF EarlyOK
  <2>5. SavedOK(a)'
    BY <1>1, <2>0 DEF SavedOK
  <2>6. QED
    BY <2>2, <2>3, <2>4, <2>5 DEF AccountOK
<1>9. QED
  BY <1>7, <1>8 DEF FirstOK

LEMMA WsSaveFirst ==
  ASSUME InFirst, NEW b \in Accounts, WsSave(b)
  PROVE  FirstOK'
<1> DEFINE ver == saves + 2
           msg == Msg("WS_REDIS_SAVEPLAYERINFO", b, ver, FALSE)
<1>1. /\ WsCanSend /\ WsSend(msg) /\ player[b] = "in"
      /\ UNCHANGED <<toDb, fromDb, toWs, process, loadFinish, redisOk, wsUp, wsConns>>
      /\ UNCHANGED <<playerInfo, database, wsSock, wsQuit, quitSaved>>
  BY DEF WsSave
<1>2. /\ \A a \in Accounts : a # b => player'[a] = player[a] /\ wsSaved'[a] = wsSaved[a]
      /\ wsSaved'[b] = ver /\ player'[b] \in {"in", "out"} /\ ver \in Versions
  BY ConstantsAssumption DEF WsSave, InFirst, Base, TypeOK, Versions
<1>3. /\ msg \in WsRequests /\ msg.type = "WS_REDIS_SAVEPLAYERINFO" /\ msg.acc = b
      /\ msg.ver = ver
  BY <1>2, WsRequestsOK
<1>4. /\ msg \notin {Quit}
      /\ \A a \in Accounts : /\ msg \notin LoginsOf(a)
                             /\ msg \in SavesOf(a) <=> a = b
  BY <1>3, WsRequestKinds
<1> HIDE DEF msg, ver
<1>5. /\ wsConns = 1 /\ wsUp /\ ~wsQuit /\ Live
      /\ \A M : Lacks(toCache'[1], M) <=> Lacks(toCache[1], M) /\ msg \notin M
      /\ \A M, N : /\ Apart(toCache[1], M, N) /\ (msg \in N => Lacks(toCache[1], M))
                        => Apart(toCache'[1], M, N)
                   /\ (Followed(toCache[1], M, N) \/ msg \in N) /\ msg \notin M
                        => Followed(toCache'[1], M, N)
  BY <1>1, <1>3, SentFirst
<1>6. Live' <=> Live
  BY <1>1 DEF Live, Running
<1>7. QuitOK'
  <2>1. Lacks(toCache[1], {Quit}) /\ Apart(toCache[1], {Quit}, WsRequests)
    BY <1>5 DEF InFirst, FirstOK, QuitOK
  <2>2. Lacks(toCache'[1], {Quit}) /\ Apart(toCache'[1], {Quit}, WsRequests)
    BY <1>4, <1>5, <2>1
  <2>3. QED
    BY <1>1, <1>5, <2>2 DEF InFirst, FirstOK, QuitOK
<1>8. ASSUME NEW a \in Accounts
      PROVE  AccountOK(a)'
  <2>0. LoginOK(a) /\ SavesOK(a) /\ EarlyOK(a) /\ SavedOK(a)
    BY DEF InFirst, FirstOK, AccountOK
  <2>1. a = b => NoLogin(LoginsOf(a)) /\ loadFinish
    BY <1>1, <1>5, <2>0 DEF LoginOK, EarlyOK
  <2> DEFINE L == LoginsOf(a)
  <2>2. LoginOK(a)'
    <3>1. Apart(toCache[1], L, L)
      BY <2>0 DEF LoginOK, OneLogin
    <3>2. Apart(toCache'[1], L, L)
      BY <1>4, <1>5, <3>1
    <3>3. Lacks(toCache'[1], L) <=> Lacks(toCache[1], L)
      BY <1>4, <1>5
    <3>4. QED
      BY <1>1, <1>2, <1>5, <2>0, <2>1, <3>2, <3>3 DEF LoginOK, OneLogin, NoLogin
  <2>3. SavesOK(a)'
    <3>1. CASE a # b
      <4>1. msg \notin OlderOf(a, wsSaved[a])
        BY <1>4, <3>1 DEF OlderOf
      <4>2. /\ Apart(toCache[1], L, SavesOf(a))
            /\ Followed(toCache[1], OlderOf(a, wsSaved[a]), SavesOf(a))
        BY <2>0 DEF SavesOK
      <4>3. Followed(toCache'[1], OlderOf(a, wsSaved[a]), SavesOf(a))
        BY <1>5, <4>1, <4>2
      <4>4. Apart(toCache'[1], L, SavesOf(a))
        BY <1>4, <1>5, <3>1, <4>2
      <4>5. Lacks(toCache'[1], SavesOf(a)) <=> Lacks(toCache[1], SavesOf(a))
        BY <1>4, <1>5, <3>1
      <4>6. QED
        BY <1>1, <1>2, <1>6, <2>0, <3>1, <4>3, <4>4, <4>5 DEF SavesOK
    <3>2. CASE a = b
      <4>1. msg \notin OlderOf(a, ver) /\ msg \in SavesOf(a)
        BY <1>3, <1>4, <3>2 DEF OlderOf
      <4>2. Lacks(toWs[1], StaleAnswersOf(a, ver))
        <5>1. toWs[1] \in Seq(WsAnswers)
          BY FirstTypes
        <5>2. StaleAnswersOf(a, ver) \cap WsAnswers \subseteq LoginsOf(a)
          BY DEF StaleAnswersOf
        <5>3. QED
          BY <2>1, <3>2, <5>1, <5>2, Fewer DEF NoLogin
      <4>3. /\ Followed(toCache'[1], OlderOf(a, ver), SavesOf(a))
            /\ Apart(toCache'[1], L, SavesOf(a))
            /\ ~Lacks(toCache'[1], SavesOf(a))
        <5>1. Followed(toCache'[1], OlderOf(a, ver), SavesOf(a))
          BY <1>5, <4>1
        <5>2. Lacks(toCache[1], L) /\ Apart(toCache[1], L, SavesOf(a))
          BY <2>0, <2>1, <3>2 DEF SavesOK, NoLogin
        <5>3. Apart(toCache'[1], L, SavesOf(a))
          BY <1>5, <5>2
        <5>4. ~Lacks(toCache'[1], SavesOf(a))
          BY <1>5, <4>1
        <5>5. QED
          BY <5>1, <5>3, <5>4
      <4>4. wsSaved'[a] = ver /\ toWs'[1] = toWs[1]
        BY <1>1, <1>2, <3>2
      <4>5. QED
        BY <4>2, <4>3, <4>4 DEF SavesOK
    <3>3. QED
      BY <3>1, <3>2
  <2>4. EarlyOK(a)'
    BY <1>1, <1>2, <1>6, <2>0, <2>1 DEF EarlyOK
  <2>5. SavedOK(a)'
    <3>1. /\ Lacks(toDb, DbSavesOf(a)) /\ Lacks(toDb, {DbQuit}) /\ Lacks(fromDb, {QuitAnswer})
          /\ process # "exited"
      BY <1>5, <2>0 DEF SavedOK, InFirst, FirstOK, QuitOK
    <3>2. Lacks(toDb, StaleSavesOf(a, wsSaved'[a]))
      <4>1. toDb \in Seq(DbRequests)
        BY FirstTypes
      <4>2. StaleSavesOf(a, wsSaved'[a]) \cap DbRequests \subseteq DbSavesOf(a)
        BY DEF StaleSavesOf
      <4>3. QED
        BY <3>1, <4>1, <4>2, Fewer
    <3>3. Preceded(toDb, {DbQuit}, DbSavesOf(a))
      BY <3>1, NothingToOrder
    <3>4. QED
      BY <1>1, <3>1, <3>2, <3>3 DEF SavedOK
  <2>6. QED
    BY <2>2, <2>3, <2>4, <2>5 DEF AccountOK
<1>9. QED
  BY <1>7, <1>8 DEF FirstOK

LEMMA WsQuitFirst ==
  ASSUME InFirst, WsQuit
  PROVE  FirstOK'
<1>1. /\ WsCanSend /\ WsSend(Quit) /\ wsQuit' /\ quitSaved' = wsSaved
      /\ UNCHANGED <<toDb, fromDb, toWs, process, loadFinish, redisOk, wsUp, wsConns>>
      /\ UNCHANGED <<playerInfo, database, wsSock, player, wsSaved>>
  BY DEF WsQuit, Quit
<1>2. Quit \in WsRequests /\ Quit \in {Quit}
  BY DEF WsRequests
<1>3. \A a \in Accounts : Quit \notin LoginsOf(a) /\ Quit \notin SavesOf(a)
  BY <1>2, WsRequestKinds
<1>4. /\ wsConns = 1 /\ wsUp /\ ~wsQuit
      /\ \A M : Lacks(toCache'[1], M) <=> Lacks(toCache[1], M) /\ Quit \notin M
      /\ \A M, N : /\ Apart(toCache[1], M, N) /\ (Quit \in N => Lacks(toCache[1], M))
                        => Apart(toCache'[1], M, N)
                   /\ (Followed(toCache[1], M, N) \/ Quit \in N) /\ Quit \notin M
                        => Followed(toCache'[1], M, N)
  BY <1>1, <1>2, SentFirst
<1>5. Live' <=> Live
  BY <1>1 DEF Live, Running
<1>6. QuitOK'
  <2>1. Lacks(toCache[1], {Quit}) /\ Apart(toCache[1], {Quit}, WsRequests)
    BY <1>4 DEF InFirst, FirstOK, QuitOK
  <2>2. Apart(toCache'[1], {Quit}, WsRequests)
    BY <1>4, <2>1
  <2>3. QED
    BY <1>1, <1>4, <2>2 DEF QuitOK
<1>7. ASSUME NEW a \in Accounts
      PROVE  AccountOK(a)'
  <2>0. LoginOK(a) /\ SavesOK(a) /\ EarlyOK(a) /\ SavedOK(a)
    BY DEF InFirst, FirstOK, AccountOK
  <2> DEFINE L == LoginsOf(a)
  <2>1. LoginOK(a)'
    <3>1. Apart(toCache[1], L, L)
      BY <2>0 DEF LoginOK, OneLogin
    <3>2. Apart(toCache'[1], L, L)
      BY <1>3, <1>4, <3>1
    <3>3. Lacks(toCache'[1], L) <=> Lacks(toCache[1], L)
      BY <1>3, <1>4
    <3>4. QED
      BY <1>1, <2>0, <3>2, <3>3 DEF LoginOK, OneLogin, NoLogin
  <2>2. SavesOK(a)'
    <3>1. Quit \notin OlderOf(a, wsSaved[a])
      BY <1>3 DEF OlderOf
    <3>2. /\ Apart(toCache[1], L, SavesOf(a))
          /\ Followed(toCache[1], OlderOf(a, wsSaved[a]), SavesOf(a))
      BY <2>0 DEF SavesOK
    <3>3. Followed(toCache'[1], OlderOf(a, wsSaved[a]), SavesOf(a))
      BY <1>4, <3>1, <3>2
    <3>4. Apart(toCache'[1], L, SavesOf(a))
      BY <1>3, <1>4, <3>2
    <3>5. Lacks(toCache'[1], SavesOf(a)) <=> Lacks(toCache[1], SavesOf(a))
      BY <1>3, <1>4
    <3>6. QED
      BY <1>1, <1>5, <2>0, <3>3, <3>4, <3>5 DEF SavesOK
  <2>3. EarlyOK(a)' /\ SavedOK(a)'
    BY <1>1, <1>5, <2>0 DEF EarlyOK, SavedOK
  <2>4. QED
    BY <2>1, <2>2, <2>3 DEF AccountOK
<1>8. QED
  BY <1>6, <1>7 DEF FirstOK

-----------------------------------------------------------------------------
(***************************************************************************)
(* The invariant, and what follows from it.                                *)
(***************************************************************************)

LEMMA FirstStep ==
  ASSUME InFirst, [Next]_vars, wsConns' <= 1
  PROVE  FirstOK'
<1>1. CASE DbConnect \/ DbConnectPending \/ DbEstablished
  BY <1>1, DbConnectionFirst
<1>2. CASE DbLost \/ HandlerCrash \/ HandleQuit
  BY <1>2, LostFirst
<1>3. CASE HandleDbCache \/ HandleDbLoadFinish
  BY <1>3, HandleDbCacheFirst, HandleDbLoadFinishFirst
<1>4. CASE \E c \in Conns : Accept(c) \/ CloseNode(c) \/ DeleteNode(c)
  BY <1>4, NodeFirst
<1>5. CASE \E c \in Conns : \/ DropEarly(c) \/ LoadPlayerInfo(c)
                            \/ SavePlayerInfo(c) \/ SaveAllCacheToDb(c)
  BY <1>5, DropEarlyFirst, LoadPlayerInfoFirst, SavePlayerInfoFirst, SaveAllCacheToDbFirst
<1>6. CASE RedisLost \/ Restart
  BY <1>6, RedisLostRestartFirst
<1>7. CASE DbServe
  BY <1>7, DbServeFirst
<1>8. CASE WsConnect \/ WsDrop \/ WsReceive \/ WsQuit
  BY <1>8, WsConnectFirst, WsDropFirst, WsReceiveFirst, WsQuitFirst
<1>9. CASE \E a \in Accounts : WsLogin(a) \/ WsSave(a)
  BY <1>9, WsLoginFirst, WsSaveFirst
<1>10. CASE UNCHANGED vars
  <2>1. UNCHANGED <<toDb, fromDb, toCache, toWs, Others>>
    BY <1>10 DEF vars, Others
  <2>2. QED
    BY <2>1, ZenonT(40) DEF InFirst, FirstOK, QuitOK, AccountOK, LoginOK, OneLogin,
                NoLogin, SavesOK, EarlyOK, SavedOK, Live, Running, Others
<1>11. QED
  BY <1>1, <1>2, <1>3, <1>4, <1>5, <1>6, <1>7, <1>8, <1>9, <1>10 DEF Next

LEMMA ConnectionsGrow ==
  ASSUME Base, [Next]_vars, wsConns' <= 1
  PROVE  wsConns <= 1
<1>1. wsConns \in Nat
  BY ConstantsAssumption DEF Base, TypeOK
<1>2. wsConns' = wsConns \/ wsConns' = wsConns + 1
  BY DEF Next, vars, DbConnect, DbConnectPending, DbEstablished, DbLost,
         HandleDbCache, HandleDbLoadFinish, HandleQuit, HandlerCrash, EndProcess,
         Accept, CloseNode, DeleteNode, DropEarly, LoadPlayerInfo, SavePlayerInfo,
         SaveAllCacheToDb, RedisLost, Restart, DbServe, WsConnect, WsDrop, WsReceive,
         WsQuit, WsLogin, WsSave
<1>3. QED
  BY <1>1, <1>2

LEMMA Invariance == Spec => []IInv
<1>1. Init => IInv
  BY InitBase, InitLoad, InitFirst DEF IInv
<1>2. IInv /\ [Next]_vars => IInv'
  <2> SUFFICES ASSUME IInv, [Next]_vars PROVE IInv'
    OBVIOUS
  <2>1. Base' /\ LoadOK'
    BY NextBase, LoadStep DEF IInv
  <2>2. wsConns' <= 1 => wsConns <= 1
    BY ConnectionsGrow DEF IInv
  <2>3. (1 \in Conns)' <=> 1 \in Conns
    BY DEF Conns
  <2>4. wsConns' <= 1 /\ 1 \in Conns => FirstOK'
    BY <2>2, FirstStep DEF IInv, InFirst
  <2>5. QED
    BY <2>1, <2>3, <2>4 DEF IInv
<1>3. QED
  BY <1>1, <1>2, PTL DEF Spec

\* saveAllCacheToDb sends the last save of every account before its QUIT, and
\* the database answers QUIT behind them: when handle_quit ends the process
\* they are in the database, whichever connections were lost on the way.
THEOREM ExitsWithTheSaves == Spec => []ExitMeansSaved
<1>1. IInv => ExitMeansSaved
  <2> SUFFICES ASSUME IInv, process = "exited", wsConns = 1
               PROVE  wsQuit /\ \A a \in Accounts : database[a] >= quitSaved[a]
    BY DEF ExitMeansSaved
  <2>1. 1 \in Conns
    BY ConstantsAssumption DEF IInv, Base, TypeOK, Conns
  <2>2. QuitOK /\ \A a \in Accounts : SavedOK(a)
    BY <2>1 DEF IInv, FirstOK, AccountOK
  <2>3. QED
    BY <2>2 DEF QuitOK, SavedOK
<1>2. QED
  BY Invariance, <1>1, PTL

\* A login is answered from redis after the saves before it were put there, and
\* from the database only before the account's first save: what the world
\* server receives is never older than what it last saved.
THEOREM LoginsReadTheSaves == Spec => ReadsItsSaves
<1>1. ASSUME IInv, [Next]_vars, NEW a \in Accounts, player[a] = "asked", player'[a] = "in",
             wsConns = 1
      PROVE  Head(toWs[wsConns]).ver >= wsSaved[a]
  <2>1. 1 \in Conns
    BY <1>1, ConstantsAssumption DEF IInv, Base, TypeOK, Conns
  <2>2. InFirst
    BY <1>1, <2>1 DEF IInv, InFirst
  <2>3. WsReceive
    <3>1. player \in [Accounts -> {"out", "asked", "in"}] /\ player' # player
      BY <1>1 DEF IInv, Base, TypeOK
    <3>2. ~WsDrop
      BY <1>1 DEF WsDrop
    <3>3. \A b \in Accounts : ~WsLogin(b) /\ ~WsSave(b)
      BY <1>1, <3>1 DEF WsLogin, WsSave
    <3>4. QED
      BY <1>1, <3>1, <3>2, <3>3
         DEF Next, vars, DbConnect, DbConnectPending, DbEstablished, DbLost, HandleDbCache,
             HandleDbLoadFinish, HandleQuit, HandlerCrash, EndProcess, Accept, CloseNode,
             DeleteNode, DropEarly, LoadPlayerInfo, SavePlayerInfo, SaveAllCacheToDb,
             RedisLost, Restart, DbServe, WsConnect, WsQuit
  <2> DEFINE m == Head(toWs[1])
  <2>4. /\ m.ver \in Nat /\ m \in LoginsOf(a)
        /\ \A M : Lacks(toWs[1], M) => m \notin M
    BY <1>1, <2>2, <2>3, WsReceiveFacts
  <2> HIDE DEF m
  <2>5. Lacks(toWs[1], StaleAnswersOf(a, wsSaved[a])) /\ wsSaved[a] \in Nat
    BY <2>2, FirstTypes DEF InFirst, FirstOK, AccountOK, SavesOK
  <2>6. m.ver >= wsSaved[a]
    BY <2>4, <2>5 DEF StaleAnswersOf
  <2>7. QED
    BY <1>1, <2>6 DEF m
<1>2. IInv /\ [Next]_vars =>
        [\A a \in Accounts :
           player[a] = "asked" /\ player'[a] = "in" /\ wsConns = 1
             => Head(toWs[wsConns]).ver >= wsSaved[a]]_vars
  BY <1>1
<1>3. QED
  BY Invariance, <1>2, PTL DEF Spec, ReadsItsSaves

-----------------------------------------------------------------------------
(***************************************************************************)
(* That no record in redis gives way to an older one.                      *)
(***************************************************************************)
Logins == {m \in Messages : m.login}
DbSaves == {m \in Messages : m.type = "REDIS_2_DB_SAVEPLAYERINFO"}
Outdated == {m \in Messages : /\ m.type = "DB_2_REDIS_ALLPLAYERINFO"
                              /\ m.acc \in Accounts /\ m.ver # database[m.acc]}

\* Before the load has finished the database is asked for nothing else, and
\* without a connection of the world server for no login.
AfterLoad ==
  /\ ~loadFinish => Lacks(toDb, DbSaves)
  /\ ~loadFinish \/ wsConns = 0 => Lacks(toDb, Logins) /\ Lacks(fromDb, Logins)

\* What the first load has put into redis, and what of it is to come, is what
\* the database has.
FirstLoad ==
  runs = 1 /\ ~loadFinish =>
    /\ \A a \in DOMAIN playerInfo : playerInfo[a] = database[a]
    /\ Lacks(fromDb, Outdated)

\* No version is anywhere that the world server has not given out.
Unsaved == {m \in Messages : m.ver > saves + 1}
Issued ==
  /\ \A a \in DOMAIN playerInfo : playerInfo[a] <= saves + 1
  /\ \A a \in Accounts : database[a] <= saves + 1
  /\ Lacks(toDb, Unsaved) /\ Lacks(fromDb, Unsaved) /\ Lacks(toCache[1], Unsaved)

\* The saves of an account are read in their order, and redis has none that
\* is newer than one to come.
SavesFrom(a, ver)   == {m \in SavesOf(a) : m.ver >= ver}
SavesBefore(a, ver) == {m \in SavesOf(a) : m.ver < ver}
Ascending(a) ==
  /\ \A v \in Versions : Apart(toCache[1], SavesFrom(a, v), SavesBefore(a, v))
  /\ a \in DOMAIN playerInfo => Lacks(toCache[1], SavesBefore(a, playerInfo[a]))
  /\ wsSaved[a] = 0 => Lacks(toCache[1], SavesOf(a))

\* While the database is asked for a record redis has none.
AskedOnce(a) ==
  ~Lacks(toDb, LoginsOf(a)) \/ ~Lacks(fromDb, LoginsOf(a)) => ~Cached(a)

Newer == Issued /\ \A a \in Accounts : Ascending(a) /\ AskedOnce(a)
OrderInv == /\ AfterLoad /\ FirstLoad
            /\ wsConns <= 1 /\ 1 \in Conns => Newer

LEMMA InitOrder == Init => OrderInv
<1> SUFFICES ASSUME Init PROVE OrderInv
  OBVIOUS
<1>1. AfterLoad
  BY EmptyQueue DEF Init, AfterLoad
<1>2. FirstLoad
  <2>1. playerInfo = <<>> /\ DOMAIN playerInfo = {}
    BY DEF Init
  <2>2. QED
    BY <2>1, EmptyQueue DEF Init, FirstLoad
<1>3. 1 \in Conns => Newer
  <2>1. DOMAIN playerInfo = {}
    BY DEF Init
  <2>2. 1 \in Conns => toCache[1] = <<>>
    BY DEF Init
  <2>3. \A a \in Accounts : database[a] <= saves + 1
    BY DEF Init
  <2>4. 1 \in Conns => Issued
    BY <2>1, <2>2, <2>3, EmptyQueue DEF Init, Issued
  <2>5. ASSUME 1 \in Conns, NEW a \in Accounts
        PROVE  Ascending(a) /\ AskedOnce(a)
    BY <2>1, <2>2, <2>5, EmptyQueue DEF Init, Ascending, AskedOnce, Cached
  <2>6. QED
    BY <2>4, <2>5 DEF Newer
<1>4. QED
  BY <1>1, <1>2, <1>3 DEF OrderInv

\* What the database sends is what it has, and a login's only when asked.
LEMMA DbSends ==
  ASSUME Base, DbServe, NEW M, Finish \notin M, QuitAnswer \notin M,
         \A x \in M : x.ver = database[x.acc] /\ x.acc \in Accounts
                        => /\ x.login
                           /\ Head(toDb).type = "REDIS_DB_LOADONEPLAYERINFO"
                                => x.acc # Head(toDb).acc,
         Lacks(fromDb, M)
  PROVE  Lacks(fromDb', M)
<1> DEFINE m == Head(toDb)
<1>1. fromDb \in Seq(DbAnswers) /\ Finish \in DbAnswers /\ QuitAnswer \in DbAnswers
  BY DEF Base, QueuesOK, DbAnswers
<1>2. CASE m.type = "REDIS_2_DB_ALLPLAYERINFO"
  <2>1. PICK r \in Seq(DbAnswers) : /\ \A i \in 1..Len(r) : Current(r[i])
                                   /\ fromDb' = Append(fromDb \o r, Finish)
    BY <1>2, DbServeFacts
  <2>2. Lacks(r, M)
    <3>1. \A i \in 1..Len(r) : r[i] \notin M
      BY <2>1 DEF Current, LoadRecords
    <3>2. QED
      BY <3>1 DEF Lacks
  <2>3. fromDb \o r \in Seq(DbAnswers) /\ Lacks(fromDb \o r, M)
    BY <1>1, <2>2, JoinedQueues
  <2>4. QED
    BY <1>1, <2>1, <2>3, GrownQueue
<1>3. CASE m.type = "REDIS_DB_LOADONEPLAYERINFO"
  <2> DEFINE answer == Msg("DB_2_REDIS_ALLPLAYERINFO", m.acc, database[m.acc], TRUE)
  <2>1. /\ m.acc \in Accounts /\ answer \in DbAnswers
        /\ fromDb' = Append(fromDb, answer)
    BY <1>3, DbServeFacts
  <2>2. answer.acc = m.acc /\ answer.ver = database[m.acc]
    OBVIOUS
  <2> HIDE DEF answer
  <2>3. answer \notin M
    BY <1>3, <2>1, <2>2
  <2>4. QED
    BY <1>1, <2>1, <2>3, GrownQueue
<1>4. CASE m.type = "REDIS_2_DB_SAVEPLAYERINFO"
  BY <1>4, DbServeFacts
<1>5. CASE m.type = "REDIS_DB_QUIT"
  <2>1. fromDb' = Append(fromDb, QuitAnswer)
    BY <1>5, DbServeFacts
  <2>2. QED
    BY <1>1, <2>1, GrownQueue
<1>6. QED
  BY <1>2, <1>3, <1>4, <1>5, DbServeFacts

\* The queues of the database, in a step that only takes from them.
LEMMA FewerFromDb ==
  ASSUME Base, fromDb # <<>>, fromDb' = Tail(fromDb), NEW M, Lacks(fromDb, M)
  PROVE  Lacks(fromDb', M) /\ Head(fromDb) \notin M
<1>1. fromDb \in Seq(DbAnswers)
  BY DEF Base, QueuesOK
<1>2. QED
  BY <1>1, TakenQueue

LEMMA FewerToDb ==
  ASSUME Base, DbServe, NEW M, Lacks(toDb, M)
  PROVE  Lacks(toDb', M) /\ Head(toDb) \notin M
<1>1. toDb \in Seq(DbRequests) /\ toDb # <<>> /\ toDb' = Tail(toDb)
  BY DEF Base, QueuesOK, DbServe
<1>2. QED
  BY <1>1, TakenQueue

\* A request is handled, when the load has finished and the world server has
\* a connection.
LEMMA AfterRequest ==
  ASSUME Base, NEW c \in Conns,
         LoadPlayerInfo(c) \/ SavePlayerInfo(c) \/ SaveAllCacheToDb(c)
  PROVE  loadFinish /\ loadFinish' /\ wsConns # 0 /\ wsConns' = wsConns
<1>1. /\ HasRequest(c) /\ Taken(c) /\ loadFinish
      /\ UNCHANGED <<loadFinish, wsConns>>
  BY DEF LoadPlayerInfo, SavePlayerInfo, SaveAllCacheToDb, Request
<1>2. QED
  BY <1>1, Served

LEMMA AfterLoadStep ==
  ASSUME Base, AfterLoad, [Next]_vars
  PROVE  AfterLoad'
<1>1. CASE DbConnect
  <2>1. toDb' \in {toDb, Append(toDb, Load)} /\ UNCHANGED <<fromDb, loadFinish, wsConns>>
    BY <1>1 DEF DbConnect, ConnectedDo, AskLoad, Load
  <2>2. toDb \in Seq(DbRequests) /\ Load \in DbRequests
    BY DEF Base, QueuesOK, DbRequests
  <2>3. Load \notin DbSaves /\ Load \notin Logins
    BY DEF Load, DbSaves, Logins
  <2>4. /\ Lacks(toDb, DbSaves) => Lacks(Append(toDb, Load), DbSaves)
        /\ Lacks(toDb, Logins) => Lacks(Append(toDb, Load), Logins)
    BY <2>2, <2>3, GrownQueue
  <2>5. QED
    BY <2>1, <2>4 DEF AfterLoad
<1>2. CASE DbLost \/ HandleQuit \/ HandlerCrash
  BY <1>2, EmptyQueue DEF AfterLoad, DbLost, HandleQuit, HandlerCrash, EndProcess
<1>3. CASE HandleDbCache \/ HandleDbLoadFinish
  <2>1. /\ fromDb # <<>> /\ fromDb' = Tail(fromDb) /\ UNCHANGED <<toDb, wsConns>>
        /\ ~loadFinish' => ~loadFinish
    BY <1>3 DEF HandleDbCache, HandleDbLoadFinish, FromDb
  <2>2. Lacks(fromDb, Logins) => Lacks(fromDb', Logins)
    BY <2>1, FewerFromDb
  <2>3. QED
    BY <2>1, <2>2 DEF AfterLoad
<1>4. ASSUME NEW c \in Conns,
             LoadPlayerInfo(c) \/ SavePlayerInfo(c) \/ SaveAllCacheToDb(c)
      PROVE  AfterLoad'
  BY <1>4, AfterRequest DEF AfterLoad
<1>5. CASE Restart
  <2>1. toDb' = <<>> /\ fromDb' = <<>>
    BY <1>5 DEF Base, TypeOK, Restart
  <2>2. QED
    BY <2>1, EmptyQueue DEF AfterLoad
<1>6. CASE DbServe
  <2>1. UNCHANGED <<loadFinish, wsConns>>
    BY <1>6 DEF DbServe
  <2>2. /\ Lacks(toDb, DbSaves) => Lacks(toDb', DbSaves)
        /\ Lacks(toDb, Logins) => Lacks(toDb', Logins) /\ Head(toDb) \notin Logins
    BY <1>6, FewerToDb
  <2>3. ASSUME Lacks(toDb, Logins), Lacks(fromDb, Logins)
        PROVE  Lacks(fromDb', Logins)
    <3>1. Head(toDb).type # "REDIS_DB_LOADONEPLAYERINFO"
      BY <1>6, <2>2, <2>3, DbServeFacts, DbRequestKinds DEF Logins, LoginsOf
    <3>2. Finish \notin Logins /\ QuitAnswer \notin Logins
      BY DEF Finish, QuitAnswer, Logins
    <3>3. \A x \in Logins : x.login
      BY DEF Logins
    <3>4. QED
      BY <1>6, <2>3, <3>1, <3>2, <3>3, DbSends
  <2>4. QED
    BY <2>1, <2>2, <2>3 DEF AfterLoad
<1>7. CASE WsConnect
  <2>1. UNCHANGED <<toDb, fromDb, loadFinish>> /\ wsConns' # 0
    BY <1>7, ConstantsAssumption DEF WsConnect, Base, TypeOK
  <2>2. QED
    BY <2>1 DEF AfterLoad
<1>8. ASSUME UNCHANGED <<toDb, fromDb, loadFinish, wsConns>>
      PROVE  AfterLoad'
  BY <1>8 DEF AfterLoad
<1>9. QED
  BY <1>1, <1>2, <1>3, <1>4, <1>5, <1>6, <1>7, <1>8
     DEF Next, vars, DbConnectPending, DbEstablished, Accept, CloseNode, DeleteNode,
         DropEarly, RedisLost, WsDrop, WsReceive, WsQuit, WsLogin, WsSave

LEMMA FirstLoadStep ==
  ASSUME Base, AfterLoad, FirstLoad, [Next]_vars
  PROVE  FirstLoad'
<1>1. CASE DbLost \/ HandleQuit \/ HandlerCrash
  BY <1>1, EmptyQueue DEF FirstLoad, DbLost, HandleQuit, HandlerCrash, EndProcess
<1>2. CASE HandleDbCache
  <2> DEFINE m == Head(fromDb)
  <2>1. /\ fromDb # <<>> /\ fromDb' = Tail(fromDb) /\ AddSelfCache(m.acc, m.ver)
        /\ m.type = "DB_2_REDIS_ALLPLAYERINFO"
        /\ UNCHANGED <<database, loadFinish, runs>>
    BY <1>2 DEF HandleDbCache, FromDb
  <2>2. m \in DbAnswers
    <3>1. fromDb \in Seq(DbAnswers)
      BY DEF Base, QueuesOK
    <3>2. QED
      BY <2>1, <3>1, TakenQueue
  <2>3. m \in Messages /\ m.acc \in Accounts /\ m.ver \in Versions
    BY <2>1, <2>2, DbAnswerKinds, MessageFields
  <2>4. ASSUME FirstLoad, runs = 1, ~loadFinish
        PROVE  /\ \A a \in DOMAIN playerInfo' : playerInfo'[a] = database[a]
               /\ Lacks(fromDb', Outdated)
    <3>1. Lacks(fromDb', Outdated) /\ m \notin Outdated
      BY <2>1, <2>4, FewerFromDb DEF FirstLoad
    <3>2. m.ver = database[m.acc]
      BY <2>1, <2>3, <3>1 DEF Outdated
    <3>3. playerInfo' = Hset(m.acc, m.ver) \/ playerInfo' = playerInfo
      BY <2>1 DEF AddSelfCache
    <3>4. QED
      BY <2>4, <3>1, <3>2, <3>3 DEF FirstLoad, Hset
  <2>5. Outdated' = Outdated
    BY <2>1 DEF Outdated
  <2>6. QED
    BY <2>1, <2>4, <2>5 DEF FirstLoad
<1>3. ASSUME NEW c \in Conns,
             LoadPlayerInfo(c) \/ SavePlayerInfo(c) \/ SaveAllCacheToDb(c)
      PROVE  FirstLoad'
  BY <1>3, AfterRequest DEF FirstLoad
<1>4. CASE Restart
  <2>1. runs' # 1
    BY <1>4, ConstantsAssumption DEF Restart, Base, TypeOK
  <2>2. QED
    BY <2>1 DEF FirstLoad
<1>5. CASE DbServe
  <2>1. UNCHANGED <<playerInfo, loadFinish, runs>>
    BY <1>5 DEF DbServe
  <2>2. ASSUME runs = 1, ~loadFinish
        PROVE  database' = database /\ Lacks(fromDb', Outdated)
    <3>1. Head(toDb) \notin DbSaves /\ Head(toDb) \notin Logins
      BY <1>5, <2>2, FewerToDb DEF AfterLoad
    <3>2. /\ Head(toDb).type # "REDIS_2_DB_SAVEPLAYERINFO"
          /\ Head(toDb).type # "REDIS_DB_LOADONEPLAYERINFO"
      BY <1>5, <3>1, DbServeFacts, DbRequestKinds DEF DbSaves, Logins, LoginsOf
    <3>3. database' = database
      BY <1>5, <3>2, DbServeFacts
    <3>4. Finish \notin Outdated /\ QuitAnswer \notin Outdated
      BY DEF Finish, QuitAnswer, Outdated
    <3>5. \A x \in Outdated : x.ver # database[x.acc]
      BY DEF Outdated
    <3>6. QED
      BY <1>5, <2>2, <3>3, <3>4, <3>5, DbSends DEF FirstLoad
  <2>3. database' = database => Outdated' = Outdated
    BY DEF Outdated
  <2>4. QED
    BY <2>1, <2>2, <2>3 DEF FirstLoad
<1>6. CASE HandleDbLoadFinish
  BY <1>6 DEF HandleDbLoadFinish, FirstLoad
<1>7. ASSUME UNCHANGED <<fromDb, database, playerInfo, loadFinish, runs>>
      PROVE  FirstLoad'
  <2>1. Outdated' = Outdated
    BY <1>7 DEF Outdated
  <2>2. QED
    BY <1>7, <2>1 DEF FirstLoad
<1>8. QED
  BY <1>1, <1>2, <1>3, <1>4, <1>5, <1>6, <1>7
     DEF Next, vars, DbConnect, DbConnectPending, DbEstablished, Accept, CloseNode,
         DeleteNode, DropEarly, RedisLost, WsConnect, WsDrop, WsReceive, WsQuit,
         WsLogin, WsSave

-----------------------------------------------------------------------------
\* The rest is about the first connection of the world server.
InNewer == InFirst /\ AfterLoad /\ Newer

\* What Newer depends on, beside the queues.
Versioned == <<playerInfo, database, saves, wsSaved>>

\* A message that carries no version.
Bare(m) == m.type # "WS_REDIS_SAVEPLAYERINFO" /\ m.ver = 0

LEMMA SavesTypes ==
  ASSUME Base
  PROVE  /\ saves \in Nat /\ Versions \subseteq Nat
         /\ \A m \in Unsaved : ~Bare(m)
         /\ \A a, v : \A m \in SavesOf(a) : ~Bare(m)
<1>1. saves \in Nat /\ Versions \subseteq Nat
  BY ConstantsAssumption DEF Base, TypeOK, Versions
<1>2. \A m \in Unsaved : m.ver \in Nat
  BY <1>1, MessageFields DEF Unsaved
<1>3. QED
  BY <1>1, <1>2 DEF Unsaved, SavesOf, Bare

\* A step that takes messages from the queues, or puts some without a version
\* there.
LEMMA QuietNewer ==
  ASSUME Base, Newer, UNCHANGED Versioned,
         \A M : (\A m \in M : m.login \/ ~Bare(m)) /\ Lacks(toDb, M)
                  => Lacks(toDb', M),
         \A M : Lacks(fromDb, M) => Lacks(fromDb', M),
         \A M : (\A m \in M : ~Bare(m)) /\ Lacks(toCache[1], M)
                  => Lacks(toCache'[1], M),
         \A M, N : (\A m \in N : ~Bare(m)) /\ Apart(toCache[1], M, N)
                     => Apart(toCache'[1], M, N)
  PROVE  Newer'
<1>1. /\ \A m \in Unsaved : ~Bare(m)
      /\ \A a : \A m \in SavesOf(a) : ~Bare(m)
  BY SavesTypes
<1>2. Issued'
  <2>1. Unsaved' = Unsaved
    BY DEF Versioned, Unsaved
  <2>2. Lacks(toDb', Unsaved) /\ Lacks(fromDb', Unsaved) /\ Lacks(toCache'[1], Unsaved)
    BY <1>1 DEF Newer, Issued
  <2>3. QED
    BY <2>1, <2>2 DEF Newer, Issued, Versioned
<1>3. ASSUME NEW a \in Accounts
      PROVE  Ascending(a)' /\ AskedOnce(a)'
  <2>1. Ascending(a) /\ AskedOnce(a)
    BY DEF Newer
  <2>2. \A v : \A m \in SavesBefore(a, v) : ~Bare(m)
    BY <1>1 DEF SavesBefore
  <2>3. Ascending(a)'
    <3>1. \A v \in Versions :
            Apart(toCache'[1], SavesFrom(a, v), SavesBefore(a, v))
      BY <2>1, <2>2 DEF Ascending
    <3>2. a \in DOMAIN playerInfo
            => Lacks(toCache'[1], SavesBefore(a, playerInfo[a]))
      BY <2>1, <2>2 DEF Ascending
    <3>3. wsSaved[a] = 0 => Lacks(toCache'[1], SavesOf(a))
      BY <1>1, <2>1 DEF Ascending
    <3>4. QED
      BY <3>1, <3>2, <3>3 DEF Ascending, Versioned
  <2>4. \A m \in LoginsOf(a) : m.login
    BY DEF LoginsOf
  <2>5. AskedOnce(a)'
    BY <2>1, <2>4 DEF AskedOnce, Versioned, Cached
  <2>6. QED
    BY <2>3, <2>5
<1>4. QED
  BY <1>2, <1>3 DEF Newer

LEMMA DbConnectionNewer ==
  ASSUME InNewer, DbConnect \/ DbConnectPending \/ DbEstablished \/ DbLost
  PROVE  Newer'
<1>1. /\ UNCHANGED <<toCache, Versioned>>
      /\ fromDb' = fromDb \/ fromDb' = <<>>
      /\ toDb' = toDb \/ toDb' = <<>> \/ toDb' = Append(toDb, Load)
  BY DEF DbConnect, ConnectedDo, AskLoad, Load, DbConnectPending, DbEstablished,
         DbLost, Versioned
<1>2. toDb \in Seq(DbRequests) /\ Load \in DbRequests
  BY DEF InNewer, InFirst, Base, QueuesOK, DbRequests
<1>3. ~Load.login /\ Bare(Load)
  BY DEF Load, Bare
<1>4. ASSUME NEW M, \A m \in M : m.login \/ ~Bare(m), Lacks(toDb, M)
      PROVE  Lacks(toDb', M)
  <2>1. Lacks(Append(toDb, Load), M)
    BY <1>2, <1>3, <1>4, GrownQueue
  <2>2. QED
    BY <1>1, <1>4, <2>1, EmptyQueue
<1>5. \A M : Lacks(fromDb, M) => Lacks(fromDb', M)
  BY <1>1, EmptyQueue
<1>6. QED
  BY <1>1, <1>4, <1>5, QuietNewer DEF InNewer, InFirst

LEMMA EmptiedNewer ==
  ASSUME InNewer, NEW c \in Conns,
         HandlerCrash \/ HandleQuit \/ Accept(c) \/ CloseNode(c) \/ DeleteNode(c)
           \/ RedisLost \/ Restart
  PROVE  Newer'
<1>1. /\ UNCHANGED Versioned
      /\ toDb' = toDb \/ toDb' = <<>>
      /\ fromDb' = fromDb \/ fromDb' = <<>>
  BY DEF HandlerCrash, HandleQuit, EndProcess, Accept, CloseNode, DeleteNode,
         RedisLost, Restart, Versioned
<1>2. toCache'[1] = toCache[1] \/ toCache'[1] = <<>>
  BY DEF InNewer, InFirst, Base, QueuesOK, HandlerCrash, HandleQuit, EndProcess,
         Accept, CloseNode, DeleteNode, RedisLost, Restart
<1>3. \A M, N : /\ Lacks(toDb, M) => Lacks(toDb', M)
                /\ Lacks(fromDb, M) => Lacks(fromDb', M)
                /\ Lacks(toCache[1], M) => Lacks(toCache'[1], M)
                /\ Apart(toCache[1], M, N) => Apart(toCache'[1], M, N)
  BY <1>1, <1>2, EmptyQueue
<1>4. QED
  BY <1>1, <1>3, QuietNewer DEF InNewer, InFirst

LEMMA TakenNewer ==
  ASSUME InNewer,
         \/ HandleDbLoadFinish
         \/ \E c \in Conns : DropEarly(c)
         \/ WsConnect \/ WsDrop \/ WsReceive
         \/ UNCHANGED vars
  PROVE  Newer'
<1>1. UNCHANGED <<toDb, Versioned>>
  BY DEF HandleDbLoadFinish, DropEarly, WsConnect, WsDrop, WsReceive, vars, Versioned
<1>2. \A M : Lacks(fromDb, M) => Lacks(fromDb', M)
  <2>1. CASE HandleDbLoadFinish
    BY <2>1, FewerFromDb DEF HandleDbLoadFinish, FromDb, InNewer, InFirst
  <2>2. CASE ~HandleDbLoadFinish
    BY <2>2 DEF DropEarly, WsConnect, WsDrop, WsReceive, vars
  <2>3. QED
    BY <2>1, <2>2
<1>3. \A M, N : /\ Lacks(toCache[1], M) => Lacks(toCache'[1], M)
                /\ Apart(toCache[1], M, N) => Apart(toCache'[1], M, N)
  <2>1. ASSUME NEW c \in Conns, DropEarly(c)
        PROVE  \A M, N : /\ Lacks(toCache[1], M) => Lacks(toCache'[1], M)
                         /\ Apart(toCache[1], M, N) => Apart(toCache'[1], M, N)
    BY <2>1, RequestFirst DEF DropEarly, InNewer
  <2>2. CASE ~\E c \in Conns : DropEarly(c)
    BY <2>2 DEF HandleDbLoadFinish, WsConnect, WsDrop, WsReceive, vars
  <2>3. QED
    BY <2>1, <2>2
<1>4. QED
  BY <1>1, <1>2, <1>3, QuietNewer DEF InNewer, InFirst

LEMMA SentNewer ==
  ASSUME InNewer, WsQuit \/ \E a \in Accounts : WsLogin(a)
  PROVE  Newer'
<1>1. UNCHANGED <<toDb, fromDb, Versioned>> /\ WsCanSend
  BY DEF WsQuit, WsLogin, Versioned
<1>2. PICK msg \in WsRequests : WsSend(msg) /\ Bare(msg)
  <2>1. ASSUME WsQuit PROVE Quit \in WsRequests /\ WsSend(Quit) /\ Bare(Quit)
    BY <2>1 DEF WsQuit, Quit, WsRequests, Bare
  <2>2. ASSUME NEW a \in Accounts, WsLogin(a)
        PROVE  \E msg \in WsRequests : WsSend(msg) /\ Bare(msg)
    <3> DEFINE msg == Msg("WS_REDIS_LOADPLAYERINFO", a, 0, TRUE)
    <3>1. msg \in WsRequests /\ WsSend(msg) /\ Bare(msg)
      BY <2>2, WsRequestsOK, ZeroVersion DEF WsLogin, Bare
    <3> HIDE DEF msg
    <3>2. QED
      BY <3>1
  <2>3. QED
    BY <2>1, <2>2
<1>3. /\ \A M : Lacks(toCache'[1], M) <=> Lacks(toCache[1], M) /\ msg \notin M
      /\ \A M, N : /\ Apart(toCache[1], M, N) /\ (msg \in N => Lacks(toCache[1], M))
                        => Apart(toCache'[1], M, N)
  BY <1>1, <1>2, SentFirst DEF InNewer
<1>4. \A M, N : /\ (\A m \in M : ~Bare(m)) /\ Lacks(toCache[1], M)
                     => Lacks(toCache'[1], M)
                /\ (\A m \in N : ~Bare(m)) /\ Apart(toCache[1], M, N)
                     => Apart(toCache'[1], M, N)
  BY <1>2, <1>3
<1>5. QED
  BY <1>1, <1>4, QuietNewer DEF InNewer, InFirst

\* handle_dbCache: a record of a load finds no save on its way, one of a login
\* none of its account, and nothing in redis.
LEMMA HandleDbCacheNewer ==
  ASSUME InNewer, HandleDbCache
  PROVE  Newer'
<1> DEFINE m == Head(fromDb)
           acc == m.acc
<1>1. /\ fromDb # <<>> /\ fromDb' = Tail(fromDb) /\ AddSelfCache(acc, m.ver)
      /\ m.type = "DB_2_REDIS_ALLPLAYERINFO" /\ Running
      /\ UNCHANGED <<toDb, toCache, database, saves, wsSaved>>
  BY DEF HandleDbCache, FromDb
<1>2. \A M : Lacks(fromDb, M) <=> m \notin M /\ Lacks(fromDb', M)
  BY <1>1, FirstTypes, TakenQueue DEF InNewer
<1>3. m \in DbAnswers /\ m \in Messages /\ acc \in Accounts /\ m.ver \in Versions
  <2>1. m \in DbAnswers
    BY <1>1, FirstTypes, TakenQueue DEF InNewer
  <2>2. QED
    BY <1>1, <2>1, DbAnswerKinds, MessageFields
<1>4. playerInfo' = Hset(acc, m.ver) \/ playerInfo' = playerInfo
  BY <1>1 DEF AddSelfCache
<1>5. m.ver \in Nat /\ saves \in Nat
  BY <1>3, SavesTypes DEF InNewer, InFirst
<1>6. /\ Issued /\ \A a \in Accounts : Ascending(a) /\ AskedOnce(a)
      /\ QuitOK /\ \A a \in Accounts : AccountOK(a)
  BY DEF InNewer, Newer, InFirst, FirstOK
<1>7. ~m.login => ~loadFinish
  <2>1. m \notin LoadRecords \/ ~loadFinish
    BY <1>2 DEF InNewer, InFirst, LoadOK
  <2>2. QED
    BY <1>1, <1>3, <2>1, DbAnswerKinds
<1>8. wsSaved[acc] = 0 \/ toCache[1] = <<>>
  <2>1. CASE m.login
    <3>1. m \in LoginsOf(acc)
      BY <1>1, <1>3, <2>1, DbAnswerKinds
    <3>2. QED
      BY <1>2, <1>3, <1>6, <3>1 DEF AccountOK, LoginOK
  <2>2. CASE ~m.login
    <3>1. ~Live => toCache[1] = <<>>
      BY <1>1 DEF Live, InNewer, InFirst, Base, LinksOK
    <3>2. Live => wsSaved[acc] = 0
      BY <1>3, <1>6, <1>7, <2>2 DEF AccountOK, EarlyOK
    <3>3. QED
      BY <3>1, <3>2
  <2>3. QED
    BY <2>1, <2>2
<1>9. Lacks(toCache[1], SavesOf(acc))
  BY <1>3, <1>6, <1>8, EmptyQueue DEF Ascending
<1>10. Lacks(toDb, LoginsOf(acc)) /\ Lacks(fromDb', LoginsOf(acc))
  <2>1. CASE m.login
    <3>1. m \in LoginsOf(acc)
      BY <1>1, <1>3, <2>1, DbAnswerKinds
    <3>2. OneLogin(LoginsOf(acc))
      BY <1>3, <1>6 DEF AccountOK, LoginOK
    <3>3. Lacks(fromDb', LoginsOf(acc))
      BY <1>1, <3>1, <3>2, FirstTypes, TakenQueue DEF OneLogin, InNewer
    <3>4. QED
      BY <1>2, <3>1, <3>2, <3>3 DEF OneLogin
  <2>2. CASE ~m.login
    <3>1. Lacks(toDb, Logins) /\ Lacks(fromDb, Logins)
      BY <1>7, <2>2 DEF InNewer, AfterLoad
    <3>2. LoginsOf(acc) \subseteq Logins
      BY DEF LoginsOf, Logins
    <3>3. QED
      BY <1>2, <3>1, <3>2 DEF Lacks
  <2>3. QED
    BY <2>1, <2>2
<1> HIDE DEF m, acc
<1>11. Issued'
  <2>1. Unsaved' = Unsaved
    BY <1>1 DEF Unsaved
  <2>2. m.ver <= saves + 1
    BY <1>2, <1>3, <1>5, <1>6 DEF Issued, Unsaved
  <2>3. \A a \in DOMAIN playerInfo' : playerInfo'[a] <= saves + 1
    BY <1>4, <1>6, <2>2 DEF Issued, Hset
  <2>4. QED
    BY <1>1, <1>2, <1>6, <2>1, <2>3 DEF Issued
<1>12. ASSUME NEW a \in Accounts
       PROVE  Ascending(a)' /\ AskedOnce(a)'
  <2>1. CASE a = acc
    <3>1. \A v : Lacks(toCache[1], SavesBefore(a, v))
      BY <1>9, <2>1 DEF SavesBefore, Lacks
    <3>2. Ascending(a)'
      BY <1>1, <1>6, <1>9, <2>1, <3>1 DEF Ascending
    <3>3. AskedOnce(a)'
      BY <1>1, <1>10, <2>1 DEF AskedOnce
    <3>4. QED
      BY <3>2, <3>3
  <2>2. CASE a # acc
    <3>1. /\ a \in DOMAIN playerInfo' <=> a \in DOMAIN playerInfo
          /\ a \in DOMAIN playerInfo => playerInfo'[a] = playerInfo[a]
      BY <1>4, <2>2 DEF Hset
    <3>2. Ascending(a)'
      BY <1>1, <1>6, <3>1 DEF Ascending
    <3>3. AskedOnce(a)'
      BY <1>1, <1>2, <1>6, <3>1 DEF AskedOnce, Cached
    <3>4. QED
      BY <3>2, <3>3
  <2>3. QED
    BY <2>1, <2>2
<1>13. QED
  BY <1>11, <1>12 DEF Newer

\* savePlayerInfo: redis takes a save, and those behind it are as new.
LEMMA SavePlayerInfoFacts ==
  ASSUME InNewer, NEW c \in Conns, SavePlayerInfo(c)
  PROVE  LET m == Head(toCache[1]) IN
         /\ m.acc \in Accounts /\ m.ver \in Versions
         /\ m \in SavesOf(m.acc)
         /\ \A a \in Accounts : a # m.acc => m \notin SavesOf(a)
         /\ playerInfo' = Hset(m.acc, m.ver) \/ playerInfo' = playerInfo
         /\ UNCHANGED <<toDb, fromDb, database, saves, wsSaved>>
         /\ \A M : Lacks(toCache[1], M) <=> m \notin M /\ Lacks(toCache'[1], M)
         /\ \A M, N : Apart(toCache[1], M, N) =>
                        /\ Apart(toCache'[1], M, N)
                        /\ m \in M => Lacks(toCache'[1], N)
<1> DEFINE m == Head(toCache[1])
<1>1. /\ HasRequest(c) /\ Taken(c) /\ Request(c, "WS_REDIS_SAVEPLAYERINFO")
      /\ AddSelfCache(Head(toCache[c]).acc, Head(toCache[c]).ver)
      /\ UNCHANGED <<toDb, fromDb, database, saves, wsSaved>>
  BY DEF SavePlayerInfo, Request
<1>2. /\ c = 1 /\ m \in WsRequests
      /\ \A M : Lacks(toCache[1], M) <=> m \notin M /\ Lacks(toCache'[1], M)
      /\ \A M, N : Apart(toCache[1], M, N) =>
                     /\ Apart(toCache'[1], M, N)
                     /\ m \in M => Lacks(toCache'[1], N)
  BY <1>1, RequestFirst DEF InNewer
<1>3. m.type = "WS_REDIS_SAVEPLAYERINFO" /\ AddSelfCache(m.acc, m.ver)
  BY <1>1, <1>2 DEF Request
<1> HIDE DEF m
<1>4. /\ m.acc \in Accounts /\ m.ver \in Versions
      /\ \A a \in Accounts : m \in SavesOf(a) <=> m.acc = a
  BY <1>2, <1>3, WsRequestKinds, MessageFields
<1>5. playerInfo' = Hset(m.acc, m.ver) \/ playerInfo' = playerInfo
  BY <1>3 DEF AddSelfCache
<1>6. QED
  BY <1>1, <1>2, <1>4, <1>5 DEF m

LEMMA SavePlayerInfoNewer ==
  ASSUME InNewer, NEW c \in Conns, SavePlayerInfo(c)
  PROVE  Newer'
<1> DEFINE m == Head(toCache[1])
           acc == m.acc
<1>1. /\ acc \in Accounts /\ m.ver \in Versions /\ m \in SavesOf(acc)
      /\ playerInfo' = Hset(acc, m.ver) \/ playerInfo' = playerInfo
      /\ UNCHANGED <<toDb, fromDb, database, saves, wsSaved>>
      /\ \A M : Lacks(toCache[1], M) <=> m \notin M /\ Lacks(toCache'[1], M)
      /\ \A M, N : Apart(toCache[1], M, N) =>
                     /\ Apart(toCache'[1], M, N)
                     /\ m \in M => Lacks(toCache'[1], N)
  BY SavePlayerInfoFacts
<1> HIDE DEF m, acc
<1>2. m.ver \in Nat /\ saves \in Nat /\ m \in Messages
  BY <1>1, SavesTypes DEF InNewer, InFirst, SavesOf
<1>3. Issued /\ \A a \in Accounts : Ascending(a) /\ AskedOnce(a) /\ AccountOK(a)
  BY DEF InNewer, Newer, InFirst, FirstOK
<1>4. Issued'
  <2>1. Unsaved' = Unsaved
    BY <1>1 DEF Unsaved
  <2>2. m.ver <= saves + 1
    BY <1>1, <1>2, <1>3 DEF Issued, Unsaved
  <2>3. \A a \in DOMAIN playerInfo' : playerInfo'[a] <= saves + 1
    BY <1>1, <1>3, <2>2 DEF Issued, Hset
  <2>4. QED
    BY <1>1, <1>3, <2>1, <2>3 DEF Issued
<1>5. ASSUME NEW a \in Accounts
      PROVE  Ascending(a)' /\ AskedOnce(a)'
  <2>1. \A v \in Versions :
          Apart(toCache'[1], SavesFrom(a, v), SavesBefore(a, v))
    BY <1>1, <1>3 DEF Ascending
  <2>2. wsSaved[a] = 0 => Lacks(toCache'[1], SavesOf(a))
    BY <1>1, <1>3 DEF Ascending
  <2>3. CASE a = acc
    <3>1. m \in SavesFrom(a, m.ver)
      BY <1>1, <1>2, <2>3 DEF SavesFrom
    <3>2. Lacks(toCache'[1], SavesBefore(a, m.ver))
      BY <1>1, <1>3, <3>1 DEF Ascending
    <3>3. a \in DOMAIN playerInfo' => \/ playerInfo'[a] = m.ver
                                     \/ playerInfo' = playerInfo
      BY <1>1, <2>3 DEF Hset
    <3>4. a \in DOMAIN playerInfo' => Lacks(toCache'[1], SavesBefore(a, playerInfo'[a]))
      BY <1>1, <1>3, <3>2, <3>3 DEF Ascending
    <3>5. wsSaved[a] # 0
      BY <1>1, <1>3, <2>3 DEF Ascending
    <3>6. Lacks(toDb', LoginsOf(a)) /\ Lacks(fromDb', LoginsOf(a))
      BY <1>1, <1>3, <3>5 DEF AccountOK, LoginOK
    <3>7. QED
      BY <2>1, <2>2, <3>4, <3>6, <1>1 DEF Ascending, AskedOnce
  <2>4. CASE a # acc
    <3>1. /\ a \in DOMAIN playerInfo' <=> a \in DOMAIN playerInfo
          /\ a \in DOMAIN playerInfo => playerInfo'[a] = playerInfo[a]
      BY <1>1, <2>4 DEF Hset
    <3>2. a \in DOMAIN playerInfo' => Lacks(toCache'[1], SavesBefore(a, playerInfo'[a]))
      BY <1>1, <1>3, <3>1 DEF Ascending
    <3>3. AskedOnce(a)'
      BY <1>1, <1>3, <3>1 DEF AskedOnce, Cached
    <3>4. QED
      BY <2>1, <2>2, <3>2, <3>3, <1>1 DEF Ascending
  <2>5. QED
    BY <2>3, <2>4
<1>6. QED
  BY <1>4, <1>5 DEF Newer

LEMMA LoadPlayerInfoNewer ==
  ASSUME InNewer, NEW c \in Conns, LoadPlayerInfo(c)
  PROVE  Newer'
<1> DEFINE acc == Head(toCache[c]).acc
           one == Msg("REDIS_DB_LOADONEPLAYERINFO", acc, 0, TRUE)
<1>1. HasRequest(c) /\ Taken(c) /\ UNCHANGED <<fromDb, Versioned>>
  BY DEF LoadPlayerInfo, Request, Versioned
<1>2. \A M, N : /\ Lacks(toCache[1], M) => Lacks(toCache'[1], M)
                /\ Apart(toCache[1], M, N) => Apart(toCache'[1], M, N)
  BY <1>1, RequestFirst DEF InNewer
<1>3. /\ one \in DbRequests
      /\ \/ toDb' = toDb
         \/ ~Cached(acc) /\ toDb' = Append(toDb, one)
  <2>1. /\ one \in DbRequests
        /\ Cached(acc) => toDb' = toDb
        /\ ~Cached(acc) => toDb' = toDb \/ toDb' = Append(toDb, one)
    BY LoadPlayerInfoSends DEF InNewer, InFirst
  <2> HIDE DEF one, acc
  <2>2. QED
    BY <2>1
<1>4. one.type = "REDIS_DB_LOADONEPLAYERINFO" /\ one.acc = acc /\ one.ver = 0
  OBVIOUS
<1> HIDE DEF one, acc
<1>5. saves \in Nat /\ toDb \in Seq(DbRequests)
  BY SavesTypes, FirstTypes DEF InNewer, InFirst
<1>6. Issued /\ \A a \in Accounts : Ascending(a) /\ AskedOnce(a)
  BY DEF InNewer, Newer
<1>7. ASSUME NEW a \in Accounts PROVE Cached(a)' <=> Cached(a)
  BY <1>1 DEF Cached, Versioned
<1>8. Issued'
  <2>1. Unsaved' = Unsaved /\ one \notin Unsaved
    BY <1>1, <1>4, <1>5 DEF Unsaved, Versioned
  <2>2. Lacks(Append(toDb, one), Unsaved)
    BY <1>3, <1>5, <1>6, <2>1, GrownQueue DEF Issued
  <2>3. QED
    BY <1>1, <1>2, <1>3, <1>6, <2>1, <2>2 DEF Issued, Versioned
<1>9. ASSUME NEW a \in Accounts
      PROVE  Ascending(a)' /\ AskedOnce(a)'
  <2>1. Ascending(a)'
    BY <1>1, <1>2, <1>6 DEF Ascending, Versioned
  <2>2. CASE a = acc /\ ~Cached(acc)
    BY <1>7, <2>1, <2>2 DEF AskedOnce
  <2>3. CASE a # acc \/ Cached(acc)
    <3>1. a # acc => one \notin LoginsOf(a)
      BY <1>4 DEF LoginsOf
    <3>2. a # acc /\ Lacks(toDb, LoginsOf(a)) => Lacks(Append(toDb, one), LoginsOf(a))
      BY <1>3, <1>5, <3>1, GrownQueue
    <3>3. Lacks(toDb, LoginsOf(a)) => Lacks(toDb', LoginsOf(a))
      BY <1>3, <2>3, <3>2
    <3>4. QED
      BY <1>1, <1>6, <1>7, <2>1, <3>3 DEF AskedOnce
  <2>4. QED
    BY <2>1, <2>2, <2>3
<1>10. QED
  BY <1>8, <1>9 DEF Newer

LEMMA SaveAllCacheToDbNewer ==
  ASSUME InNewer, NEW c \in Conns, SaveAllCacheToDb(c)
  PROVE  Newer'
<1>1. HasRequest(c) /\ Taken(c) /\ UNCHANGED <<fromDb, Versioned>>
  BY DEF SaveAllCacheToDb, Request, Versioned
<1>2. \A M, N : /\ Lacks(toCache[1], M) => Lacks(toCache'[1], M)
                /\ Apart(toCache[1], M, N) => Apart(toCache'[1], M, N)
  BY <1>1, RequestFirst DEF InNewer
<1>3. PICK order \in SetToSeqs(DOMAIN playerInfo) : SendToDb(SaveAll(order))
  BY DEF SaveAllCacheToDb
<1> DEFINE all == SaveAll(order)
<1>4. /\ all \in Seq(DbRequests)
      /\ \A i \in 1..Len(all) :
           /\ all[i] \in DbRequests
           /\ all[i].type \in {"REDIS_2_DB_SAVEPLAYERINFO", "REDIS_DB_QUIT"}
           /\ all[i].type = "REDIS_2_DB_SAVEPLAYERINFO"
                => all[i].acc \in DOMAIN playerInfo /\ all[i].ver = playerInfo[all[i].acc]
  BY SaveAllKinds, SaveAllCacheToDbSends DEF InNewer, InFirst
<1>5. toDb' = toDb \/ toDb' = toDb \o all
  BY <1>3 DEF SendToDb
<1> HIDE DEF all
<1>6. saves \in Nat /\ toDb \in Seq(DbRequests)
  BY SavesTypes, FirstTypes DEF InNewer, InFirst
<1>7. /\ Issued /\ \A a \in Accounts : Ascending(a) /\ AskedOnce(a)
      /\ \A a \in DOMAIN playerInfo : playerInfo[a] \in Nat
  BY FirstTypes DEF InNewer, Newer
<1>8. Lacks(all, Unsaved)
  <2>1. ASSUME NEW i \in 1..Len(all)
        PROVE  all[i] \notin Unsaved
    <3>1. CASE all[i].type = "REDIS_2_DB_SAVEPLAYERINFO"
      BY <1>4, <1>6, <1>7, <3>1 DEF Issued, Unsaved
    <3>2. CASE all[i].type = "REDIS_DB_QUIT"
      <4>1. all[i] = DbQuit
        BY <1>4, <3>2, DbRequestKinds
      <4>2. DbQuit.ver = 0
        BY DEF DbQuit
      <4>3. QED
        BY <1>6, <4>1, <4>2 DEF Unsaved
    <3>3. QED
      BY <1>4, <3>1, <3>2
  <2>2. QED
    BY <2>1 DEF Lacks
<1>9. ASSUME NEW a \in Accounts
      PROVE  Lacks(all, LoginsOf(a))
  <2>1. \A i \in 1..Len(all) : all[i] \notin LoginsOf(a)
    BY <1>4, DbRequestKinds
  <2>2. QED
    BY <2>1 DEF Lacks
<1>10. Issued'
  <2>1. Unsaved' = Unsaved
    BY <1>1 DEF Unsaved, Versioned
  <2>2. Lacks(toDb \o all, Unsaved)
    BY <1>4, <1>6, <1>7, <1>8, JoinedQueues DEF Issued
  <2>3. QED
    BY <1>1, <1>2, <1>5, <1>7, <2>1, <2>2 DEF Issued, Versioned
<1>11. ASSUME NEW a \in Accounts
       PROVE  Ascending(a)' /\ AskedOnce(a)'
  <2>1. Ascending(a)'
    BY <1>1, <1>2, <1>7 DEF Ascending, Versioned
  <2>2. Lacks(toDb, LoginsOf(a)) => Lacks(toDb \o all, LoginsOf(a))
    BY <1>4, <1>6, <1>9, JoinedQueues
  <2>3. QED
    BY <1>1, <1>5, <1>7, <2>1, <2>2 DEF AskedOnce, Cached, Versioned
<1>12. QED
  BY <1>10, <1>11 DEF Newer

LEMMA DbServeNewer ==
  ASSUME InNewer, DbServe
  PROVE  Newer'
<1> DEFINE m == Head(toDb)
<1>1. UNCHANGED <<toCache, playerInfo, saves, wsSaved>> /\ Base
  BY DEF DbServe, InNewer, InFirst
<1>2. \A M : Lacks(toDb, M) => Lacks(toDb', M) /\ m \notin M
  BY <1>1, FewerToDb
<1>3. /\ m \in DbRequests /\ m \in Messages /\ m.ver \in Nat /\ saves \in Nat
      /\ m.type # "REDIS_2_DB_SAVEPLAYERINFO" => database' = database
      /\ m.type = "REDIS_2_DB_SAVEPLAYERINFO"
           => database' = [database EXCEPT ![m.acc] = m.ver]
  BY <1>1, DbServeFacts, DbRequestKinds, SavesTypes
<1>4. Issued /\ \A a \in Accounts : Ascending(a) /\ AskedOnce(a)
  BY DEF InNewer, Newer
<1>5. \A a \in Accounts : database[a] \in Nat
  BY FirstTypes DEF InNewer
<1>6. Issued'
  <2>1. Unsaved' = Unsaved
    BY <1>1 DEF Unsaved
  <2>2. Lacks(fromDb', Unsaved)
    <3>1. Finish \notin Unsaved /\ QuitAnswer \notin Unsaved
      BY <1>3 DEF Finish, QuitAnswer, Unsaved
    <3>2. ASSUME NEW x \in Unsaved, x.ver = database[x.acc], x.acc \in Accounts
          PROVE  FALSE
      BY <1>3, <1>4, <1>5, <3>2 DEF Issued, Unsaved
    <3>3. QED
      BY <1>1, <1>4, <3>1, <3>2, DbSends DEF Issued
  <2>3. \A a \in Accounts : database'[a] <= saves + 1
    <3>1. m.ver <= saves + 1
      BY <1>2, <1>3, <1>4 DEF Issued, Unsaved
    <3>2. database \in [Accounts -> Versions]
      BY <1>1 DEF Base, TypeOK
    <3>3. QED
      BY <1>3, <1>4, <3>1, <3>2 DEF Issued
  <2>4. QED
    BY <1>1, <1>2, <1>4, <2>1, <2>2, <2>3 DEF Issued
<1>7. ASSUME NEW a \in Accounts
      PROVE  Ascending(a)' /\ AskedOnce(a)'
  <2>1. Ascending(a)'
    BY <1>1, <1>4 DEF Ascending
  <2>2. ASSUME Lacks(toDb, LoginsOf(a)), Lacks(fromDb, LoginsOf(a))
        PROVE  Lacks(toDb', LoginsOf(a)) /\ Lacks(fromDb', LoginsOf(a))
    <3>1. m \notin LoginsOf(a)
      BY <1>2, <2>2
    <3>2. m.type = "REDIS_DB_LOADONEPLAYERINFO" => m.acc # a
      BY <1>3, <3>1, DbRequestKinds
    <3>3. Finish \notin LoginsOf(a) /\ QuitAnswer \notin LoginsOf(a)
      BY DEF Finish, QuitAnswer, LoginsOf
    <3>4. \A x \in LoginsOf(a) : x.login /\ x.acc = a
      BY DEF LoginsOf
    <3>5. QED
      BY <1>1, <1>2, <2>2, <3>2, <3>3, <3>4, DbSends
  <2>3. AskedOnce(a)'
    BY <1>1, <1>4, <2>2 DEF AskedOnce, Cached
  <2>4. QED
    BY <2>1, <2>3
<1>8. QED
  BY <1>6, <1>7 DEF Newer

\* A save has a version that no other message has.
LEMMA WsSaveNewer ==
  ASSUME InNewer, NEW b \in Accounts, WsSave(b)
  PROVE  Newer'
<1> DEFINE ver == saves + 2
           msg == Msg("WS_REDIS_SAVEPLAYERINFO", b, ver, FALSE)
<1>1. /\ WsCanSend /\ WsSend(msg) /\ saves' = saves + 1
      /\ UNCHANGED <<toDb, fromDb, playerInfo, database>>
  BY DEF WsSave
<1>2. /\ saves \in Nat /\ ver \in Versions /\ ver \in Nat
      /\ \A a \in Accounts : a # b => wsSaved'[a] = wsSaved[a]
      /\ wsSaved'[b] = ver
  BY ConstantsAssumption
     DEF WsSave, InNewer, InFirst, Base, TypeOK, Versions
<1>3. /\ msg \in WsRequests /\ msg.type = "WS_REDIS_SAVEPLAYERINFO" /\ msg.acc = b
      /\ msg.ver = ver
  BY <1>2, WsRequestsOK
<1>4. /\ msg \in Messages
      /\ \A a \in Accounts : msg \in SavesOf(a) <=> a = b
  BY <1>3, WsRequestKinds
<1> HIDE DEF msg
<1>5. /\ \A M : Lacks(toCache'[1], M) <=> Lacks(toCache[1], M) /\ msg \notin M
      /\ \A M, N : Apart(toCache[1], M, N) /\ (msg \in N => Lacks(toCache[1], M))
                     => Apart(toCache'[1], M, N)
  BY <1>1, <1>3, SentFirst DEF InNewer
<1>6. Issued /\ \A a \in Accounts : Ascending(a) /\ AskedOnce(a)
  BY DEF InNewer, Newer
<1>7. /\ \A a \in DOMAIN playerInfo : playerInfo[a] \in Nat
      /\ \A a \in Accounts : database[a] \in Nat
  BY FirstTypes DEF InNewer
<1>8. Issued'
  <2>1. \A m \in Messages : m.ver \in Nat
    BY MessageFields, SavesTypes DEF InNewer, InFirst
  <2>2. Unsaved' \subseteq Unsaved /\ msg \notin Unsaved'
    BY <1>1, <1>2, <1>3, <2>1 DEF Unsaved
  <2>3. \A q : Lacks(q, Unsaved) => Lacks(q, Unsaved')
    BY <2>2 DEF Lacks
  <2>4. Lacks(toDb', Unsaved') /\ Lacks(fromDb', Unsaved') /\ Lacks(toCache'[1], Unsaved')
    BY <1>1, <1>5, <1>6, <2>2, <2>3 DEF Issued
  <2>5. /\ \A a \in DOMAIN playerInfo' : playerInfo'[a] <= saves' + 1
        /\ \A a \in Accounts : database'[a] <= saves' + 1
    BY <1>1, <1>2, <1>6, <1>7 DEF Issued
  <2>6. QED
    BY <2>4, <2>5 DEF Issued
<1>9. ASSUME NEW a \in Accounts
      PROVE  Ascending(a)' /\ AskedOnce(a)'
  <2>1. AskedOnce(a)'
    BY <1>1, <1>6 DEF AskedOnce, Cached
  <2>2. CASE a # b
    <3>1. \A v : msg \notin SavesBefore(a, v)
      BY <1>4, <2>2 DEF SavesBefore
    <3>2. Ascending(a)'
      BY <1>1, <1>2, <1>4, <1>5, <1>6, <2>2, <3>1 DEF Ascending
    <3>3. QED
      BY <2>1, <3>2
  <2>3. CASE a = b
    <3>1. ASSUME NEW v \in Versions, msg \in SavesBefore(a, v)
          PROVE  Lacks(toCache[1], SavesFrom(a, v))
      <4>1. v \in Nat /\ saves + 2 < v
        BY <1>3, <3>1, SavesTypes DEF SavesBefore, InNewer, InFirst
      <4>2. SavesFrom(a, v) \subseteq Unsaved
        <5>1. \A x \in SavesFrom(a, v) : x \in Messages /\ x.ver \in Nat /\ x.ver >= v
          BY MessageFields, SavesTypes DEF SavesFrom, SavesOf, InNewer, InFirst
        <5>2. QED
          BY <1>2, <4>1, <5>1 DEF Unsaved
      <4>3. QED
        BY <1>6, <4>2 DEF Issued, Lacks
    <3>2. \A v \in Versions : Apart(toCache'[1], SavesFrom(a, v), SavesBefore(a, v))
      BY <1>5, <1>6, <3>1 DEF Ascending
    <3>3. a \in DOMAIN playerInfo => msg \notin SavesBefore(a, playerInfo[a])
      BY <1>2, <1>3, <1>6, <1>7 DEF SavesBefore, Issued
    <3>4. a \in DOMAIN playerInfo' => Lacks(toCache'[1], SavesBefore(a, playerInfo'[a]))
      BY <1>1, <1>5, <1>6, <3>3 DEF Ascending
    <3>5. wsSaved'[a] # 0
      BY <1>2, <2>3
    <3>6. QED
      BY <2>1, <3>2, <3>4, <3>5 DEF Ascending
  <2>4. QED
    BY <2>2, <2>3
<1>10. QED
  BY <1>8, <1>9 DEF Newer

LEMMA NewerStep ==
  ASSUME InNewer, [Next]_vars
  PROVE  Newer'
<1>1. CASE DbConnect \/ DbConnectPending \/ DbEstablished \/ DbLost
  BY <1>1, DbConnectionNewer
<1>2. CASE HandlerCrash \/ HandleQuit \/ RedisLost \/ Restart
  BY <1>2, EmptiedNewer DEF InNewer, InFirst
<1>3. CASE \E c \in Conns : Accept(c) \/ CloseNode(c) \/ DeleteNode(c)
  BY <1>3, EmptiedNewer
<1>4. CASE \/ HandleDbLoadFinish \/ WsConnect \/ WsDrop \/ WsReceive
           \/ UNCHANGED vars \/ \E c \in Conns : DropEarly(c)
  BY <1>4, TakenNewer
<1>5. CASE \E c \in Conns : LoadPlayerInfo(c) \/ SavePlayerInfo(c) \/ SaveAllCacheToDb(c)
  BY <1>5, LoadPlayerInfoNewer, SavePlayerInfoNewer, SaveAllCacheToDbNewer
<1>6. CASE HandleDbCache \/ DbServe
  BY <1>6, HandleDbCacheNewer, DbServeNewer
<1>7. CASE WsQuit \/ \E a \in Accounts : WsLogin(a) \/ WsSave(a)
  BY <1>7, SentNewer, WsSaveNewer
<1>8. QED
  BY <1>1, <1>2, <1>3, <1>4, <1>5, <1>6, <1>7 DEF Next

LEMMA OrderInvariance == Spec => [](IInv /\ OrderInv)
<1>1. Init => OrderInv
  BY InitOrder
<1>2. ASSUME IInv, OrderInv, [Next]_vars
      PROVE  OrderInv'
  <2>1. AfterLoad' /\ FirstLoad'
    BY <1>2, AfterLoadStep, FirstLoadStep DEF IInv, OrderInv
  <2>2. wsConns' <= 1 => wsConns <= 1
    BY <1>2, ConnectionsGrow DEF IInv
  <2>3. (1 \in Conns)' <=> 1 \in Conns
    BY DEF Conns
  <2>4. wsConns' <= 1 /\ 1 \in Conns => Newer'
    BY <1>2, <2>2, NewerStep DEF IInv, InFirst, InNewer, OrderInv
  <2>5. QED
    BY <2>1, <2>3, <2>4 DEF OrderInv
<1>3. QED
  BY <1>1, <1>2, Invariance, PTL DEF Spec

\* Only handle_dbCache and savePlayerInfo write to redis.
LEMMA OnlyWriters ==
  ASSUME [Next]_vars, playerInfo' # playerInfo
  PROVE  HandleDbCache \/ \E c \in Conns : SavePlayerInfo(c)
  BY DEF Next, vars, DbConnect, DbConnectPending, DbEstablished, DbLost,
         HandleDbLoadFinish, HandleQuit, HandlerCrash, EndProcess, Accept, CloseNode,
         DeleteNode, DropEarly, LoadPlayerInfo, SaveAllCacheToDb, RedisLost, Restart,
         DbServe, WsConnect, WsDrop, WsReceive, WsQuit, WsLogin, WsSave

\* A record in redis is replaced by an older one in the load of a restarted
\* server, or after a second connection of the world server, and never
\* otherwise: a save is read after all that are older, and the database's
\* answer to a login finds none in redis, whichever connections were lost.
THEOREM NewestKept == Spec => NotSetBack
<1>1. ASSUME IInv, OrderInv, [Next]_vars,
             NEW a \in DOMAIN playerInfo \cap DOMAIN playerInfo',
             playerInfo'[a] < playerInfo[a], wsConns <= 1,
             ~(runs > 1 /\ ~loadFinish)
      PROVE  FALSE
  <2>1. /\ Base /\ LoadOK /\ AfterLoad /\ FirstLoad
        /\ a \in Accounts /\ playerInfo[a] \in Nat /\ wsConns \in Nat
        /\ runs \in Nat \ {0} /\ loadFinish \in BOOLEAN
    BY <1>1, SavesTypes, ConstantsAssumption DEF IInv, OrderInv, Base, TypeOK
  <2>2. wsConns = 1 => InNewer
    BY <1>1, <2>1, ConstantsAssumption
       DEF IInv, OrderInv, InFirst, InNewer, Base, TypeOK, Conns
  <2>3. ~\E c \in Conns : SavePlayerInfo(c)
    <3>1. SUFFICES ASSUME NEW c \in Conns, SavePlayerInfo(c)
                   PROVE  FALSE
      OBVIOUS
    <3>2. InNewer
      BY <1>1, <2>1, <2>2, <3>1, AfterRequest
    <3> DEFINE m == Head(toCache[1])
    <3>3. /\ m.ver \in Versions /\ m \in SavesOf(m.acc)
          /\ playerInfo' = Hset(m.acc, m.ver) \/ playerInfo' = playerInfo
          /\ \A M : Lacks(toCache[1], M) => m \notin M
      BY <3>1, <3>2, SavePlayerInfoFacts
    <3> HIDE DEF m
    <3>4. m.acc = a /\ m.ver < playerInfo[a]
      BY <1>1, <2>1, <3>3 DEF Hset
    <3>5. Lacks(toCache[1], SavesBefore(a, playerInfo[a]))
      BY <1>1, <2>1, <3>2 DEF InNewer, Newer, Ascending
    <3>6. QED
      BY <3>3, <3>4, <3>5 DEF SavesBefore
  <2>4. HandleDbCache
    BY <1>1, <2>1, <2>3, OnlyWriters
  <2> DEFINE m == Head(fromDb)
  <2>5. /\ fromDb # <<>> /\ fromDb' = Tail(fromDb)
        /\ m.type = "DB_2_REDIS_ALLPLAYERINFO"
        /\ playerInfo' = Hset(m.acc, m.ver) \/ playerInfo' = playerInfo
    BY <2>4 DEF HandleDbCache, FromDb, AddSelfCache
  <2>6. m \in DbAnswers /\ \A M : Lacks(fromDb, M) => m \notin M
    <3>1. fromDb \in Seq(DbAnswers)
      BY <2>1 DEF Base, QueuesOK
    <3>2. QED
      BY <2>1, <2>5, <3>1, TakenQueue, FewerFromDb
  <2> HIDE DEF m
  <2>7. m \in Messages /\ m.acc = a /\ m.ver \in Nat /\ m.ver < playerInfo[a]
    <3>1. m \in Messages /\ m.ver \in Nat
      BY <2>1, <2>6, DbAnswerKinds, MessageFields, SavesTypes
    <3>2. QED
      BY <1>1, <2>1, <2>5, <3>1 DEF Hset
  <2>8. CASE ~loadFinish
    <3>1. runs = 1
      BY <1>1, <2>1, <2>8
    <3>2. playerInfo[a] = database[a] /\ m \notin Outdated
      BY <1>1, <2>1, <2>6, <2>8, <3>1 DEF FirstLoad
    <3>3. QED
      BY <2>1, <2>5, <2>7, <3>2 DEF Outdated
  <2>9. CASE loadFinish
    <3>1. m \notin LoadRecords
      BY <2>1, <2>6, <2>9 DEF LoadOK
    <3>2. m.login /\ m \in LoginsOf(a)
      BY <2>1, <2>5, <2>6, <2>7, <3>1, DbAnswerKinds DEF LoginsOf
    <3>3. wsConns # 0
      BY <2>1, <2>6, <2>7, <3>2 DEF AfterLoad, Logins
    <3>4. ~Cached(a)
      <4>1. InNewer
        BY <1>1, <2>1, <2>2, <3>3
      <4>2. ~Lacks(fromDb, LoginsOf(a))
        BY <2>6, <3>2
      <4>3. QED
        BY <2>1, <4>1, <4>2 DEF InNewer, Newer, AskedOnce
    <3>5. QED
      BY <1>1, <2>7, <3>4 DEF Cached
  <2>10. QED
    BY <2>8, <2>9
<1>2. IInv /\ OrderInv /\ [Next]_vars =>
        [\A a \in DOMAIN playerInfo \cap DOMAIN playerInfo' :
           playerInfo'[a] < playerInfo[a]
             => (runs > 1 /\ ~loadFinish) \/ wsConns > 1]_vars
  <2>1. IInv => wsConns \in Nat
    BY ConstantsAssumption DEF IInv, Base, TypeOK
  <2>2. QED
    BY <1>1, <2>1
<1>3. QED
  BY OrderInvariance, <1>2, PTL DEF Spec, NotSetBack
=============================================================================

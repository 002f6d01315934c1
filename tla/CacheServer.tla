----------------------------- MODULE CacheServer -----------------------------
(***************************************************************************)
(* The cache server of my_cluster (test3): it keeps player records in the  *)
(* hash playerInfo of a local redis, fills it from the database server at  *)
(* start, answers the logins of the world server (WS) from it, takes the   *)
(* saves of the world server into it, and writes all of it to the database *)
(* when the world server quits.                                            *)
(*                                                                         *)
(* One thread (socket_run) runs every socket, so handling one message is   *)
(* one step.  A connection is what MessageChannel promises: a queue of     *)
(* whole messages in each direction, emptied when the connection is lost.  *)
(* A record is its version, a number that grows with every save; 0 is no   *)
(* record.  The world server and the database server are not part of the   *)
(* repository and are modelled from the messages this program exchanges    *)
(* with them.                                                              *)
(***************************************************************************)
EXTENDS Naturals, Sequences, FiniteSets, SequencesExt

CONSTANTS Accounts,       \* player accounts
          NoAcc,          \* the account of a message that names none
          MaxSaves,       \* bound on the saves of the world server
          MaxWsConns,     \* bound on the connections of the world server
          MaxDbConns,     \* bound on the connections to the database
          MaxRuns         \* bound on the starts of the cache server

ASSUME ConstantsAssumption ==
  /\ IsFiniteSet(Accounts) /\ NoAcc \notin Accounts
  /\ MaxSaves \in Nat /\ MaxWsConns \in Nat /\ MaxDbConns \in Nat
  /\ MaxRuns \in Nat \ {0}

VARIABLES
  process,      \* the cache server: "running", "crashed", "exited"
  runs,         \* how often it was started
  loadFinish,   \* gSockDb->m_isServerStartLoadFinish
  redisOk,      \* gRedisCon->m_context can still talk to redis
  playerInfo,   \* the redis hash, which outlives the process
  dbSock,       \* gSockDb: "closed", "connecting" (an fd with the connect in
                \* progress), "connected"
  dbConns,      \* connections to the database begun
  loadAsked,    \* history: connectedDo ran on this connection
  toDb, fromDb, \* messages between the cache server and the database
  database,     \* the database server's table
  wsSock,       \* the connections of the world server here: "none",
                \* "backlog" (not yet accepted), "open", "closed" (a node with
                \* no fd), "deleted"
  gCache,       \* the node of the last accepted connection, 0 for NULL
  toCache,      \* messages from the world server, by connection
  toWs,         \* messages to the world server, by connection
  wsConns,      \* connections made by the world server
  wsUp,         \* the world server holds its last connection
  player,       \* at the world server: "out", "asked" to log in, "in"
  saves,        \* saves the world server has sent
  wsSaved,      \* history: the last version of an account it sent
  wsQuit,       \* it has sent its QUIT
  quitSaved     \* history: wsSaved at that time

cacheVars == <<process, runs, loadFinish, redisOk, playerInfo>>
dbVars    == <<dbSock, dbConns, loadAsked, toDb, fromDb, database>>
linkVars  == <<wsSock, gCache, toCache, toWs>>
worldVars == <<wsConns, wsUp, player, saves, wsSaved, wsQuit, quitSaved>>
vars      == <<cacheVars, dbVars, linkVars, worldVars>>

Conns == 1..MaxWsConns
Versions == 0..MaxSaves + 1

\* Every message names what it is, the account and the version it carries;
\* login tells a hallId from the -1 of the load at start.
Msg(type, acc, ver, login) ==
  [type |-> type, acc |-> acc, ver |-> ver, login |-> login]
Signal(type) == Msg(type, NoAcc, 0, FALSE)

Init ==
  /\ process = "running" /\ runs = 1 /\ loadFinish = FALSE
  /\ redisOk \in BOOLEAN
  /\ playerInfo = <<>>
  /\ dbSock = "closed" /\ dbConns = 0 /\ loadAsked = FALSE
  /\ toDb = <<>> /\ fromDb = <<>>
  /\ database \in [Accounts -> {0, 1}]
  /\ wsSock = [c \in Conns |-> "none"] /\ gCache = 0
  /\ toCache = [c \in Conns |-> <<>>] /\ toWs = [c \in Conns |-> <<>>]
  /\ wsConns = 0 /\ wsUp = FALSE /\ player = [a \in Accounts |-> "out"]
  /\ saves = 0 /\ wsSaved = [a \in Accounts |-> 0]
  /\ wsQuit = FALSE /\ quitSaved = wsSaved

----------------------------------------------------------------------------
(***************************************************************************)
(* The connection to the database (Socket_db).                             *)
(***************************************************************************)

Running == process = "running"

\* sendMsg drops what is sent on a closed socket; on a socket whose connect
\* is in progress it queues.
SendToDb_Keep(msgs) == toDb' = toDb \o msgs
SendToDb(msgs) == toDb' = IF dbSock = "closed" THEN toDb ELSE toDb \o msgs

\* Socket_db::connectedDo asks for all records, until they were loaded once.
AskLoad_Always == TRUE
AskLoad == ~loadFinish
ConnectedDo ==
  /\ loadAsked' = AskLoad
  /\ toDb' = IF AskLoad THEN Append(toDb, Signal("REDIS_2_DB_ALLPLAYERINFO"))
             ELSE toDb

CanConnect == Running /\ dbSock = "closed" /\ dbConns < MaxDbConns

\* run() finds the socket closed and Connect() succeeds at once.
DbConnect ==
  /\ CanConnect
  /\ dbSock' = "connected" /\ dbConns' = dbConns + 1
  /\ ConnectedDo
  /\ UNCHANGED <<cacheVars, fromDb, database, linkVars, worldVars>>

\* connect() answers EINPROGRESS and the select() after it does not yet find
\* the socket writable: Connect() returns false and leaves the fd in place.
DbConnectPending ==
  /\ CanConnect
  /\ dbSock' = "connecting" /\ dbConns' = dbConns + 1
  /\ UNCHANGED <<cacheVars, loadAsked, toDb, fromDb, database, linkVars,
                 worldVars>>

\* The kernel completes the connect.  The next run() finds an fd and goes
\* straight to haveRecvOrSend: connectedDo is not called.
DbEstablished ==
  /\ dbSock = "connecting"
  /\ dbSock' = "connected"
  /\ UNCHANGED <<cacheVars, dbConns, loadAsked, toDb, fromDb, database,
                 linkVars, worldVars>>

\* The connection fails, or the connect in progress does: Close().
DbLost ==
  /\ dbSock # "closed"
  /\ dbSock' = "closed" /\ loadAsked' = FALSE
  /\ toDb' = <<>> /\ fromDb' = <<>>
  /\ UNCHANGED <<cacheVars, dbConns, database, linkVars, worldVars>>

----------------------------------------------------------------------------
(***************************************************************************)
(* What the handlers share.  A redis command whose reply is NULL is only   *)
(* logged by addSelfCache; loadPlayerInfo and saveAllCacheToDb go through  *)
(* the pointer.                                                            *)
(***************************************************************************)

\* addSelfCache: hset playerInfo.
Hset_IfAbsent(acc, ver) ==
  [a \in DOMAIN playerInfo \cup {acc} |->
     IF a \in DOMAIN playerInfo THEN playerInfo[a] ELSE ver]
Hset(acc, ver) ==
  [a \in DOMAIN playerInfo \cup {acc} |->
     IF a = acc THEN ver ELSE playerInfo[a]]
AddSelfCache(acc, ver) ==
  playerInfo' = IF redisOk THEN Hset(acc, ver) ELSE playerInfo

\* loadPlayerInfo takes an empty field for none.
Cached(acc) == acc \in DOMAIN playerInfo /\ playerInfo[acc] # 0

\* gCache->sendPack: to the newest connection, whoever asked.  Through a
\* deleted node it is lost too, when it does not crash (HandlerCrash).
SendToWs_First(msg) ==
  toWs' = IF wsSock[1] = "open"
          THEN [toWs EXCEPT ![1] = Append(@, msg)] ELSE toWs
SendToWs(msg) ==
  toWs' = IF gCache # 0 /\ wsSock[gCache] = "open"
          THEN [toWs EXCEPT ![gCache] = Append(@, msg)] ELSE toWs

GCacheDangling == gCache # 0 /\ wsSock[gCache] = "deleted"

\* The process ends: the kernel closes its sockets.
EndProcess(how) ==
  /\ process' = how
  /\ dbSock' = "closed" /\ loadAsked' = FALSE /\ toDb' = <<>> /\ fromDb' = <<>>
  /\ wsSock' = [c \in Conns |-> IF wsSock[c] = "none" THEN "none"
                                ELSE "deleted"]
  /\ gCache' = 0
  /\ toCache' = [c \in Conns |-> <<>>]
  /\ UNCHANGED <<runs, loadFinish, redisOk, playerInfo, dbConns, database,
                 toWs, worldVars>>

----------------------------------------------------------------------------
(***************************************************************************)
(* Socket_db::processMsg.                                                  *)
(***************************************************************************)

FromDb(type) == Running /\ fromDb # <<>> /\ Head(fromDb).type = type

\* handle_dbCache: into the cache and, when a login asked for it, on to the
\* world server.
HandleDbCache ==
  /\ FromDb("DB_2_REDIS_ALLPLAYERINFO")
  /\ LET m == Head(fromDb)
     IN /\ AddSelfCache(m.acc, m.ver)
        /\ IF m.login
           THEN SendToWs(Msg("REDIS_WS_LOADPLAYERINFO", m.acc, m.ver, TRUE))
           ELSE UNCHANGED toWs
  /\ fromDb' = Tail(fromDb)
  /\ UNCHANGED <<process, runs, loadFinish, redisOk, dbSock, dbConns,
                 loadAsked, toDb, database, wsSock, gCache, toCache, worldVars>>

HandleDbLoadFinish ==
  /\ FromDb("DB_2_REDIS_ALLLOADFINISH")
  /\ loadFinish' = TRUE
  /\ fromDb' = Tail(fromDb)
  /\ UNCHANGED <<process, runs, redisOk, playerInfo, dbSock, dbConns,
                 loadAsked, toDb, database, linkVars, worldVars>>

\* handle_quit: exit(1).
HandleQuit == FromDb("DB_REDIS_QUIT") /\ EndProcess("exited")

----------------------------------------------------------------------------
(***************************************************************************)
(* Socket_CacheListen and Socket_Cache::processMsg.                        *)
(***************************************************************************)

\* accept_node with getNewAcceptNode: the backlog in its order.
Accept(c) ==
  /\ Running /\ wsSock[c] = "backlog"
  /\ \A d \in 1..c - 1 : wsSock[d] # "backlog"
  /\ wsSock' = [wsSock EXCEPT ![c] = "open"] /\ gCache' = c
  /\ UNCHANGED <<cacheVars, dbVars, toCache, toWs, worldVars>>

\* haveRecvOrSend fails: Close() discards what was received and not yet
\* processed.
CloseNode(c) ==
  /\ Running /\ wsSock[c] = "open"
  /\ wsSock' = [wsSock EXCEPT ![c] = "closed"]
  /\ toCache' = [toCache EXCEPT ![c] = <<>>]
  /\ UNCHANGED <<cacheVars, dbVars, gCache, toWs, worldVars>>

\* The next run() marks the closed node and SocketMgr::run deletes it.
DeleteNode(c) ==
  /\ Running /\ wsSock[c] = "closed"
  /\ wsSock' = [wsSock EXCEPT ![c] = "deleted"]
  /\ UNCHANGED <<cacheVars, dbVars, gCache, toCache, toWs, worldVars>>

\* The loop takes the next message of a connection.
HasRequest(c) == Running /\ wsSock[c] = "open" /\ toCache[c] # <<>>
Request(c, type) == HasRequest(c) /\ loadFinish /\ Head(toCache[c]).type = type
Taken(c) == toCache' = [toCache EXCEPT ![c] = Tail(@)]

\* Before the load has finished every message is dropped.
DropEarly(c) ==
  /\ HasRequest(c) /\ ~loadFinish
  /\ Taken(c)
  /\ UNCHANGED <<cacheVars, dbVars, wsSock, gCache, toWs, worldVars>>

\* loadPlayerInfo: answer from the cache, or ask the database for this one.
LoadPlayerInfo(c) ==
  /\ Request(c, "WS_REDIS_LOADPLAYERINFO") /\ redisOk
  /\ LET acc == Head(toCache[c]).acc
     IN IF Cached(acc)
        THEN /\ SendToWs(Msg("REDIS_WS_LOADPLAYERINFO", acc, playerInfo[acc],
                             TRUE))
             /\ UNCHANGED toDb
        ELSE /\ SendToDb(<<Msg("REDIS_DB_LOADONEPLAYERINFO", acc, 0, TRUE)>>)
             /\ UNCHANGED toWs
  /\ Taken(c)
  /\ UNCHANGED <<cacheVars, dbSock, dbConns, loadAsked, fromDb, database,
                 wsSock, gCache, worldVars>>

SavePlayerInfo(c) ==
  /\ Request(c, "WS_REDIS_SAVEPLAYERINFO")
  /\ AddSelfCache(Head(toCache[c]).acc, Head(toCache[c]).ver)
  /\ Taken(c)
  /\ UNCHANGED <<process, runs, loadFinish, redisOk, dbVars, wsSock, gCache,
                 toWs, worldVars>>

\* saveAllCacheToDb: one save for each field of the hash, in the order of
\* hgetall, then QUIT.
SaveAll_QuitFirst(order) ==
  <<Signal("REDIS_DB_QUIT")>> \o
  [i \in 1..Len(order) |-> Msg("REDIS_2_DB_SAVEPLAYERINFO", order[i],
                               playerInfo[order[i]], FALSE)]
SaveAll(order) ==
  [i \in 1..Len(order) |-> Msg("REDIS_2_DB_SAVEPLAYERINFO", order[i],
                               playerInfo[order[i]], FALSE)]
  \o <<Signal("REDIS_DB_QUIT")>>

SaveAllCacheToDb(c) ==
  /\ Request(c, "WS_REDIS_QUIT") /\ redisOk
  /\ \E order \in SetToSeqs(DOMAIN playerInfo) : SendToDb(SaveAll(order))
  /\ Taken(c)
  /\ UNCHANGED <<cacheVars, dbSock, dbConns, loadAsked, fromDb, database,
                 wsSock, gCache, toWs, worldVars>>

\* The crashes the handlers are open to: a NULL reply in loadPlayerInfo and
\* saveAllCacheToDb, and a use of the deleted gCache.
AnswersLogin(c) == /\ Request(c, "WS_REDIS_LOADPLAYERINFO") /\ redisOk
                   /\ Cached(Head(toCache[c]).acc)
HandlerCrash ==
  /\ \/ \E c \in Conns : /\ ~redisOk
                         /\ \/ Request(c, "WS_REDIS_LOADPLAYERINFO")
                            \/ Request(c, "WS_REDIS_QUIT")
     \/ GCacheDangling /\ \E c \in Conns : AnswersLogin(c)
     \/ /\ GCacheDangling /\ FromDb("DB_2_REDIS_ALLPLAYERINFO")
        /\ Head(fromDb).login
  /\ EndProcess("crashed")

\* The connection to redis fails under the synchronous context, which is
\* never connected again.
RedisLost ==
  /\ Running /\ redisOk
  /\ redisOk' = FALSE
  /\ UNCHANGED <<process, runs, loadFinish, playerInfo, dbVars, linkVars,
                 worldVars>>

\* The server is started again: test3 builds every object anew.
Restart ==
  /\ ~Running /\ runs < MaxRuns
  /\ process' = "running" /\ runs' = runs + 1 /\ loadFinish' = FALSE
  /\ redisOk' \in BOOLEAN
  /\ UNCHANGED <<playerInfo, dbVars, linkVars, worldVars>>

----------------------------------------------------------------------------
(***************************************************************************)
(* The database server (external): it serves its queue in order and sends  *)
(* its answers, to a load one record each and ALLLOADFINISH.               *)
(***************************************************************************)

Records(order) ==
  [i \in 1..Len(order) |-> Msg("DB_2_REDIS_ALLPLAYERINFO", order[i],
                               database[order[i]], FALSE)]

DbServe ==
  /\ dbSock = "connected" /\ toDb # <<>>
  /\ toDb' = Tail(toDb)
  /\ LET m == Head(toDb)
     IN \/ /\ m.type = "REDIS_2_DB_ALLPLAYERINFO"
           /\ \E order \in SetToSeqs({a \in Accounts : database[a] # 0}) :
                fromDb' = fromDb \o Records(order)
                          \o <<Signal("DB_2_REDIS_ALLLOADFINISH")>>
           /\ UNCHANGED database
        \/ /\ m.type = "REDIS_DB_LOADONEPLAYERINFO"
           /\ fromDb' = Append(fromDb, Msg("DB_2_REDIS_ALLPLAYERINFO", m.acc,
                                           database[m.acc], TRUE))
           /\ UNCHANGED database
        \/ /\ m.type = "REDIS_2_DB_SAVEPLAYERINFO"
           /\ database' = [database EXCEPT ![m.acc] = m.ver]
           /\ UNCHANGED fromDb
        \/ /\ m.type = "REDIS_DB_QUIT"
           /\ fromDb' = Append(fromDb, Signal("DB_REDIS_QUIT"))
           /\ UNCHANGED database
  /\ UNCHANGED <<cacheVars, dbSock, dbConns, loadAsked, linkVars, worldVars>>

----------------------------------------------------------------------------
(***************************************************************************)
(* The world server (external): it asks for a record before it uses it,    *)
(* saves only what it was given, and forgets its players with the          *)
(* connection.                                                             *)
(***************************************************************************)

WsSend(msg) == toCache' = [toCache EXCEPT ![wsConns] = Append(@, msg)]

\* A connection the cache server has lost takes messages for a while, which
\* are lost; it is enough to let it drop them at once.
WsCanSend == wsUp /\ wsSock[wsConns] \in {"backlog", "open"} /\ ~wsQuit

WsConnect ==
  /\ Running /\ ~wsUp /\ wsConns < MaxWsConns
  /\ wsConns' = wsConns + 1 /\ wsUp' = TRUE
  /\ wsSock' = [wsSock EXCEPT ![wsConns + 1] = "backlog"]
  /\ UNCHANGED <<cacheVars, dbVars, gCache, toCache, toWs, player, saves,
                 wsSaved, wsQuit, quitSaved>>

\* It loses or gives up the connection; what it sent may still arrive.
WsDrop ==
  /\ wsUp /\ wsUp' = FALSE
  /\ player' = [a \in Accounts |-> "out"]
  /\ toWs' = [toWs EXCEPT ![wsConns] = <<>>]
  /\ UNCHANGED <<cacheVars, dbVars, wsSock, gCache, toCache, wsConns, saves,
                 wsSaved, wsQuit, quitSaved>>

WsLogin(a) ==
  /\ WsCanSend /\ player[a] = "out"
  /\ player' = [player EXCEPT ![a] = "asked"]
  /\ WsSend(Msg("WS_REDIS_LOADPLAYERINFO", a, 0, TRUE))
  /\ UNCHANGED <<cacheVars, dbVars, wsSock, gCache, toWs, wsConns, wsUp, saves,
                 wsSaved, wsQuit, quitSaved>>

WsReceive ==
  /\ wsUp /\ toWs[wsConns] # <<>>
  /\ LET a == Head(toWs[wsConns]).acc
     IN player' = IF player[a] = "asked" THEN [player EXCEPT ![a] = "in"]
                  ELSE player
  /\ toWs' = [toWs EXCEPT ![wsConns] = Tail(@)]
  /\ UNCHANGED <<cacheVars, dbVars, wsSock, gCache, toCache, wsConns, wsUp,
                 saves, wsSaved, wsQuit, quitSaved>>

\* A save while the player plays on, or as it leaves.
WsSave(a) ==
  /\ WsCanSend /\ player[a] = "in" /\ saves < MaxSaves
  /\ saves' = saves + 1
  /\ wsSaved' = [wsSaved EXCEPT ![a] = saves + 2]
  /\ WsSend(Msg("WS_REDIS_SAVEPLAYERINFO", a, saves + 2, FALSE))
  /\ \E s \in {"in", "out"} : player' = [player EXCEPT ![a] = s]
  /\ UNCHANGED <<cacheVars, dbVars, wsSock, gCache, toWs, wsConns, wsUp,
                 wsQuit, quitSaved>>

WsQuit ==
  /\ WsCanSend
  /\ wsQuit' = TRUE /\ quitSaved' = wsSaved
  /\ WsSend(Signal("WS_REDIS_QUIT"))
  /\ UNCHANGED <<cacheVars, dbVars, wsSock, gCache, toWs, wsConns, wsUp,
                 player, saves, wsSaved>>

----------------------------------------------------------------------------
HandleDb == HandleDbCache \/ HandleDbLoadFinish \/ HandleQuit
HandleWs(c) == \/ DropEarly(c) \/ LoadPlayerInfo(c) \/ SavePlayerInfo(c)
               \/ SaveAllCacheToDb(c)

Next ==
  \/ DbConnect \/ DbConnectPending \/ DbEstablished \/ DbLost
  \/ HandleDbCache \/ HandleDbLoadFinish \/ HandleQuit
  \/ \E c \in Conns : Accept(c) \/ CloseNode(c) \/ DeleteNode(c)
  \/ \E c \in Conns : \/ DropEarly(c) \/ LoadPlayerInfo(c)
                      \/ SavePlayerInfo(c) \/ SaveAllCacheToDb(c)
  \/ HandlerCrash \/ RedisLost \/ Restart
  \/ DbServe
  \/ WsConnect \/ WsDrop \/ WsReceive \/ WsQuit
  \/ \E a \in Accounts : WsLogin(a) \/ WsSave(a)

\* socket_run loops for ever over all sockets, so whatever a handler can do
\* is done, or ends in the crash; the two servers serve their queues.
Fairness ==
  /\ WF_vars(HandleDb \/ HandlerCrash)
  /\ \A c \in Conns : WF_vars(HandleWs(c) \/ HandlerCrash)
  /\ WF_vars(DbServe) /\ WF_vars(WsReceive)

Spec == Init /\ [][Next]_vars /\ Fairness

----------------------------------------------------------------------------
(***************************************************************************)
(* Properties.                                                             *)
(***************************************************************************)

MsgTypes == {"REDIS_2_DB_ALLPLAYERINFO", "REDIS_DB_LOADONEPLAYERINFO",
             "REDIS_2_DB_SAVEPLAYERINFO", "REDIS_DB_QUIT",
             "DB_2_REDIS_ALLPLAYERINFO", "DB_2_REDIS_ALLLOADFINISH",
             "DB_REDIS_QUIT", "WS_REDIS_LOADPLAYERINFO",
             "WS_REDIS_SAVEPLAYERINFO", "WS_REDIS_QUIT",
             "REDIS_WS_LOADPLAYERINFO"}
Messages == [type : MsgTypes, acc : Accounts \cup {NoAcc}, ver : Versions,
             login : BOOLEAN]

\* The types, and what Close() and exit leave behind: no message is queued
\* for a closed database socket, none for a process that has ended, and
\* gCache is NULL or a connection that was accepted.
TypeOK ==
  /\ process \in {"running", "crashed", "exited"} /\ runs \in 1..MaxRuns
  /\ loadFinish \in BOOLEAN /\ redisOk \in BOOLEAN
  /\ DOMAIN playerInfo \subseteq Accounts
  /\ \A a \in DOMAIN playerInfo : playerInfo[a] \in Versions
  /\ dbSock \in {"closed", "connecting", "connected"}
  /\ dbConns \in 0..MaxDbConns /\ loadAsked \in BOOLEAN
  /\ toDb \in Seq(Messages) /\ fromDb \in Seq(Messages)
  /\ database \in [Accounts -> Versions]
  /\ wsSock \in [Conns -> {"none", "backlog", "open", "closed", "deleted"}]
  /\ gCache \in 0..wsConns
  /\ toCache \in [Conns -> Seq(Messages)] /\ toWs \in [Conns -> Seq(Messages)]
  /\ wsConns \in 0..MaxWsConns /\ wsUp \in BOOLEAN
  /\ player \in [Accounts -> {"out", "asked", "in"}]
  /\ saves \in 0..MaxSaves /\ wsSaved \in [Accounts -> Versions]
  /\ wsQuit \in BOOLEAN /\ quitSaved \in [Accounts -> Versions]
  /\ dbSock = "closed" => toDb = <<>> /\ fromDb = <<>> /\ ~loadAsked
  /\ ~Running => dbSock = "closed"
  /\ gCache # 0 => wsSock[gCache] \notin {"none", "backlog"}

\* A record in the cache gives way to an older one only in the load of a
\* restarted server, which takes the database's copy over what redis kept,
\* or when a second connection of the world server may have repeated a login:
\* no loss of the database, and no order of its answers, brings it about.
NotSetBack ==
  [][\A a \in DOMAIN playerInfo \cap DOMAIN playerInfo' :
       playerInfo'[a] < playerInfo[a]
         => (runs > 1 /\ ~loadFinish) \/ wsConns > 1]_vars

\* handle_quit exits only when every save the world server sent before its
\* QUIT is in the database, as long as the world server made one connection
\* only, whatever happens to the connections to the database and to redis in
\* between.  (Of two connections the second can quit while saves sent over the
\* first are still unread.)
ExitMeansSaved ==
  process = "exited" /\ wsConns = 1
    => /\ wsQuit
       /\ \A a \in Accounts : database[a] >= quitSaved[a]

\* Over the first connection of the world server a login is never answered
\* with a record older than the last one the world server saved.
ReadsItsSaves ==
  [][\A a \in Accounts :
       player[a] = "asked" /\ player'[a] = "in" /\ wsConns = 1
         => Head(toWs[wsConns]).ver >= wsSaved[a]]_vars

\* Where the request or the answer of a login can be.
Carries(queue, types, a) ==
  \E i \in 1..Len(queue) : /\ queue[i].type \in types /\ queue[i].acc = a
                           /\ queue[i].login
Pending(a) ==
  \/ Carries(toCache[wsConns], {"WS_REDIS_LOADPLAYERINFO"}, a)
  \/ Carries(toDb, {"REDIS_DB_LOADONEPLAYERINFO"}, a)
  \/ Carries(fromDb, {"DB_2_REDIS_ALLPLAYERINFO"}, a)
  \/ Carries(toWs[wsConns], {"REDIS_WS_LOADPLAYERINFO"}, a)
Asked(a) == wsUp /\ player[a] = "asked" /\ Pending(a)
Healthy == /\ Running /\ loadFinish /\ redisOk /\ dbSock = "connected"
           /\ wsUp /\ gCache = wsConns /\ wsSock[wsConns] = "open"

\* A login that is under way while every connection stands is answered, or a
\* connection breaks.
LoginAnswered ==
  \A a \in Accounts :
    Asked(a) /\ Healthy ~> player[a] # "asked" \/ ~Healthy

\* connectedDo: "need all playerInfo cache ok ?".  A connected database that
\* has not yet sent the records has been asked for them.
LoadRequested == dbSock = "connected" /\ ~loadFinish => loadAsked
=============================================================================

---------------------------- MODULE ClusterClient ----------------------------
(***************************************************************************)
(* The redis cluster client of my_cluster (test2): instancMgr_cli with one *)
(* client for the bootstrap node, which asks for CLUSTER SLOTS, and one    *)
(* client per master of the answer, each with a hiredis asynchronous       *)
(* context.  A client keeps its commands in m_cacheMsg, has one of them    *)
(* under way, and on a MOVED answer disconnects and connects to the node   *)
(* it was sent to.                                                         *)
(*                                                                         *)
(* The event loop thread runs timers and socket events one at a time, so a *)
(* whole handler is one step; the thread of the console adds commands.     *)
(* The cluster is external: its nodes execute a command for a slot they    *)
(* own and answer MOVED otherwise.                                         *)
(***************************************************************************)
EXTENDS Naturals, Sequences, FiniteSets, SequencesExt

CONSTANTS Nodes,       \* addresses of the masters
          NoNode,      \* the empty m_ip
          Slots,       \* hash slots, each covered by a master
          Boot,        \* names m_cluster, the client of the bootstrap node
          BootAddr,    \* 127.0.0.1:6379
          LuaFile,     \* loadLua finds its file
          MaxCommands, \* bound on the commands typed
          MaxMoves,    \* bound on the slots that change their master
          MaxErrors    \* bound on the connections that fail

ASSUME ConstantsAssumption ==
  /\ IsFiniteSet(Nodes) /\ NoNode \notin Nodes /\ Boot \notin Nodes
  /\ BootAddr \in Nodes /\ LuaFile \in BOOLEAN
  /\ MaxCommands \in Nat /\ MaxMoves \in Nat /\ MaxErrors \in Nat

VARIABLES
  process,   \* "running", "crashed" (through a bad pointer), "aborted" (assert)
  command,   \* m_command: typed and not yet handed to a client
  slots,     \* m_slots: the master of each slot, NoNode before it is known
  client,    \* m_cluster and m_clientBase
  toNode,    \* commands on their way to the node of a client
  fromNode,  \* answers on their way back
  owner,     \* the cluster: the master of each slot
  executed,  \* history: commands in the order the nodes executed them
  typed,     \* commands typed so far
  moves, errors  \* counters for the bounds

clusterVars == <<owner, executed, moves>>
vars == <<process, command, slots, client, toNode, fromNode, clusterVars,
          typed, errors>>

Clients == Nodes \cup {Boot}

\* What travels to a node: a typed command, CLUSTER SLOTS, the lua script.
Command(id, slot) == [kind |-> "user", id |-> id, slot |-> slot]
ClusterSlots == [kind |-> "slots"]
LoadLua == [kind |-> "lua"]

\* A client: made tells whether it exists; conn is the state of m_context,
\* "none" for NULL, "dead" when redisAsyncConnect reported an error, "up",
\* "closing" once it has REDIS_DISCONNECTING, "freed" when hiredis freed it
\* and m_context still points there; doing is m_doMsgId # 0; callbacks and
\* obuf are those of the context, "msg" for a callback that goes on to
\* getMsgback and "lua" for the one with privdata.
NoClient ==
  [made |-> FALSE, addr |-> NoNode, newAddr |-> NoNode, conn |-> "none",
   doing |-> FALSE, cache |-> <<>>, callbacks |-> <<>>, obuf |-> <<>>]

\* connectInstanc, on a client that reset() has cleared or that is new.
ConnectInstanc(addr, conn) ==
  [NoClient EXCEPT !.made = TRUE, !.addr = addr, !.conn = conn]

Init ==
  /\ process = "running" /\ command = <<>>
  /\ slots = [s \in Slots |-> NoNode]
  /\ client = [c \in Clients |-> IF c = Boot
                                 THEN ConnectInstanc(BootAddr, "connecting")
                                 ELSE NoClient]
  /\ toNode = [c \in Clients |-> <<>>] /\ fromNode = [c \in Clients |-> <<>>]
  /\ owner \in [Slots -> Nodes] /\ executed = <<>>
  /\ typed = 0 /\ moves = 0 /\ errors = 0

Running == process = "running"

\* Of the contexts asked for, redisAsyncConnect reports an error for some.
MayFail(wanted, used) ==
  {failed \in SUBSET wanted : used + Cardinality(failed) <= MaxErrors}
ConnOf(c, failed) == IF c \in failed THEN "dead" ELSE "connecting"

----------------------------------------------------------------------------
(***************************************************************************)
(* The console thread.                                                     *)
(***************************************************************************)

AddCommand(s) ==
  /\ Running /\ typed < MaxCommands
  /\ typed' = typed + 1
  /\ command' = Append(command, Command(typed + 1, s))
  /\ UNCHANGED <<process, slots, client, toNode, fromNode, clusterVars, errors>>

----------------------------------------------------------------------------
(***************************************************************************)
(* The timer: instancMgr_cli::run.                                         *)
(***************************************************************************)

\* runCommand hands each command to the client getRightCliByKey finds; it
\* goes through a NULL pointer when it finds none.
ForClient(cmds, c) ==
  LET taken[i \in 0..Len(cmds)] ==
        IF i = 0 THEN <<>>
        ELSE IF slots[cmds[i].slot] = c THEN Append(taken[i - 1], cmds[i])
        ELSE taken[i - 1]
  IN taken[Len(cmds)]
NoRightCli ==
  \E i \in 1..Len(command) :
    slots[command[i].slot] \notin {n \in Nodes : client[n].made}
HandedOut(c) == [client[c] EXCEPT !.cache = @ \o ForClient(command, c)]

\* startDoMsg: the front command, one at a time.
CanStart_Eager(cl) == cl.cache # <<>>
CanStart(cl) == cl.cache # <<>> /\ ~cl.doing

\* redisAsyncCommand refuses a context that is being disconnected, which
\* startDoMsg does not notice; a freed one takes the command nowhere, if it
\* does not crash.
StartDoMsg(cl) ==
  IF ~CanStart(cl) THEN cl
  ELSE IF cl.conn \in {"closing", "freed"} THEN [cl EXCEPT !.doing = TRUE]
  ELSE [cl EXCEPT !.doing = TRUE, !.callbacks = Append(@, "msg"),
                  !.obuf = Append(@, Head(cl.cache))]

Starts(conn) ==
  \E c \in Clients : CanStart(HandedOut(c)) /\ client[c].conn = conn

Tick ==
  /\ Running
  /\ ~NoRightCli /\ ~Starts("none")
  /\ client' = [c \in Clients |-> StartDoMsg(HandedOut(c))]
  /\ command' = <<>>
  /\ UNCHANGED <<process, slots, toNode, fromNode, clusterVars, typed, errors>>

\* The same tick when it meets a pointer to no client, to no context or to a
\* freed one.
TickCrash ==
  /\ Running
  /\ NoRightCli \/ Starts("none") \/ Starts("freed")
  /\ process' = "crashed"
  /\ UNCHANGED <<command, slots, client, toNode, fromNode, clusterVars, typed,
                 errors>>

----------------------------------------------------------------------------
(***************************************************************************)
(* The context of a client: connecting and writing.                        *)
(***************************************************************************)

\* redisInstance_cli::connectCallback, whatever its status: CLUSTER SLOTS is
\* put in the queue of the bootstrap client.
AskSlots(c, cl) ==
  IF c = Boot THEN [cl EXCEPT !.cache = Append(@, ClusterSlots)] ELSE cl

\* loadLua goes past the queue straight to the context.
SendLua(cl) ==
  IF LuaFile THEN [cl EXCEPT !.callbacks = Append(@, "lua"),
                             !.obuf = Append(@, LoadLua)]
  ELSE cl

\* The first write event: connectCallback, then everything in the output
\* buffer is written.
Connected(c) ==
  /\ Running /\ client[c].conn = "connecting"
  /\ LET cl == SendLua(AskSlots(c, client[c]))
     IN /\ client' = [client EXCEPT ![c] = [cl EXCEPT !.conn = "up",
                                                      !.obuf = <<>>]]
        /\ toNode' = [toNode EXCEPT ![c] = @ \o cl.obuf]
  /\ UNCHANGED <<process, command, slots, fromNode, clusterVars, typed, errors>>

\* The connect failed: connectCallback, then __redisAsyncDisconnect runs the
\* callbacks with a NULL reply, which getMsgback ignores, and frees the
\* context without a disconnectCallback: m_context and m_doMsgId stay.
ConnectFails(c) ==
  /\ Running /\ client[c].conn = "connecting" /\ errors < MaxErrors
  /\ client' = [client EXCEPT ![c] =
                  [AskSlots(c, client[c]) EXCEPT !.conn = "freed",
                                                 !.callbacks = <<>>,
                                                 !.obuf = <<>>]]
  /\ errors' = errors + 1
  /\ UNCHANGED <<process, command, slots, toNode, fromNode, clusterVars, typed>>

\* redisAsyncHandleWrite.
Write(c) ==
  /\ Running /\ client[c].conn \in {"up", "closing"} /\ client[c].obuf # <<>>
  /\ toNode' = [toNode EXCEPT ![c] = @ \o client[c].obuf]
  /\ client' = [client EXCEPT ![c].obuf = <<>>]
  /\ UNCHANGED <<process, command, slots, fromNode, clusterVars, typed, errors>>

----------------------------------------------------------------------------
(***************************************************************************)
(* Reading answers: redisAsyncHandleRead and redisProcessCallbacks.        *)
(***************************************************************************)

\* redisInstance_cli::moved, in the callback: the disconnect is deferred and
\* the command goes back to the front.
Moved_ToTheBack(cl, cmd, addr) ==
  [cl EXCEPT !.conn = "closing", !.newAddr = addr, !.cache = Append(@, cmd)]
Moved(cl, cmd, addr) ==
  [cl EXCEPT !.conn = "closing", !.newAddr = addr, !.cache = <<cmd>> \o @]

\* redisInstance_base::getMsgback: the answer is for the front command.
Popped_StillDoing(cl) == [cl EXCEPT !.cache = Tail(@)]
Popped(cl) == [cl EXCEPT !.doing = FALSE, !.cache = Tail(@)]
GetMsgback(cl, reply) ==
  IF cl.cache = <<>> THEN cl
  ELSE IF reply.kind = "moved"
       THEN Moved(Popped(cl), Head(cl.cache), reply.addr)
  ELSE Popped(cl)

\* One reply: its callback is shifted and run; the one with privdata only
\* deletes that.
ForMsgback_All(cl) == TRUE
ForMsgback(cl) == Head(cl.callbacks) = "msg"
OnReply(cl, reply) ==
  LET rest == [cl EXCEPT !.callbacks = Tail(@)]
  IN IF ForMsgback(cl) THEN GetMsgback(rest, reply) ELSE rest

\* The replies that have arrived, one after the other.
OnReplies(cl, replies) ==
  LET after[i \in 0..Len(replies)] ==
        IF i = 0 THEN cl ELSE OnReply(after[i - 1], replies[i])
  IN after[Len(replies)]

\* redisInstance_cli::disconnectCallback: reset(), and a new connection when
\* a MOVED has named a node, with the queue as it was.
KeptCache_Dropped(cl) == <<>>
KeptCache(cl) == cl.cache
DisconnectCallback_StillDoing(cl, conn) ==
  IF cl.newAddr = NoNode THEN [NoClient EXCEPT !.made = TRUE, !.doing = cl.doing]
  ELSE [ConnectInstanc(cl.newAddr, conn) EXCEPT !.cache = KeptCache(cl)]
DisconnectCallback(cl, conn) ==
  IF cl.newAddr = NoNode THEN [NoClient EXCEPT !.made = TRUE]
  ELSE [ConnectInstanc(cl.newAddr, conn) EXCEPT !.cache = KeptCache(cl)]

\* slots: m_slots is replaced, and slotsLoadFinish makes and connects a
\* client for each master that has none.
SlotsLoaded(replies) == \E i \in 1..Len(replies) : replies[i].kind = "slots"
TheSlots(replies) ==
  (CHOOSE r \in ToSet(replies) : r.kind = "slots").map
NewMasters(map) == {n \in Nodes : ~client[n].made /\ \E s \in Slots : map[s] = n}

\* The k replies that have arrived are handled in one go; when no more are
\* left a context that is disconnecting, with nothing to write, is
\* disconnected, and must then have no callback pending.
Read(c) ==
  /\ Running /\ client[c].conn \in {"up", "closing"}
  /\ \E k \in 1..Len(fromNode[c]) :
       LET replies == SubSeq(fromNode[c], 1, k)
           cl      == OnReplies(client[c], replies)
           leaves  == cl.conn = "closing" /\ cl.obuf = <<>>
       IN IF leaves /\ cl.callbacks # <<>>
          THEN /\ process' = "aborted"
               /\ UNCHANGED <<slots, client, toNode, fromNode, errors>>
          ELSE IF leaves
          THEN \E failed \in MayFail({c}, errors) :
                 /\ client' = [client EXCEPT
                      ![c] = DisconnectCallback(cl, ConnOf(c, failed))]
                 /\ errors' = errors + Cardinality(failed)
                 /\ toNode' = [toNode EXCEPT ![c] = <<>>]
                 /\ fromNode' = [fromNode EXCEPT ![c] = <<>>]
                 /\ UNCHANGED <<process, slots>>
          ELSE IF SlotsLoaded(replies)
          THEN LET map == TheSlots(replies)
               IN \E failed \in MayFail(NewMasters(map), errors) :
                    /\ slots' = map
                    /\ client' = [d \in Clients |->
                         IF d = c THEN cl
                         ELSE IF d \in NewMasters(map)
                              THEN ConnectInstanc(d, ConnOf(d, failed))
                              ELSE client[d]]
                    /\ errors' = errors + Cardinality(failed)
                    /\ fromNode' = [fromNode EXCEPT
                                      ![c] = SubSeq(@, k + 1, Len(@))]
                    /\ UNCHANGED <<process, toNode>>
          ELSE /\ client' = [client EXCEPT ![c] = cl]
               /\ fromNode' = [fromNode EXCEPT ![c] = SubSeq(@, k + 1, Len(@))]
               /\ UNCHANGED <<process, slots, toNode, errors>>
  /\ UNCHANGED <<command, clusterVars, typed>>

\* The connection fails: the callbacks run with a NULL reply, then
\* disconnectCallback.
ConnectionLost(c) ==
  /\ Running /\ client[c].conn \in {"up", "closing"} /\ errors < MaxErrors
  /\ \E failed \in MayFail({c}, errors + 1) :
       /\ client' = [client EXCEPT
            ![c] = DisconnectCallback(@, ConnOf(c, failed))]
       /\ errors' = errors + 1 + Cardinality(failed)
  /\ toNode' = [toNode EXCEPT ![c] = <<>>]
  /\ fromNode' = [fromNode EXCEPT ![c] = <<>>]
  /\ UNCHANGED <<process, command, slots, clusterVars, typed>>

----------------------------------------------------------------------------
(***************************************************************************)
(* The cluster (external).                                                 *)
(***************************************************************************)

Execute(c) ==
  /\ toNode[c] # <<>>
  /\ LET cmd == Head(toNode[c])
         here == cmd.kind = "user" /\ owner[cmd.slot] = client[c].addr
         Answer(r) == fromNode' = [fromNode EXCEPT ![c] = Append(@, r)]
     IN /\ executed' = IF here THEN Append(executed, cmd) ELSE executed
        /\ IF cmd.kind = "user" /\ ~here
           THEN Answer([kind |-> "moved", addr |-> owner[cmd.slot]])
           ELSE IF cmd.kind = "slots"
           THEN Answer([kind |-> "slots", map |-> owner])
           ELSE Answer([kind |-> "ok"])
  /\ toNode' = [toNode EXCEPT ![c] = Tail(@)]
  /\ UNCHANGED <<process, command, slots, client, owner, typed, moves, errors>>

Reshard(s, n) ==
  /\ moves < MaxMoves /\ owner[s] # n
  /\ owner' = [owner EXCEPT ![s] = n] /\ moves' = moves + 1
  /\ UNCHANGED <<process, command, slots, client, toNode, fromNode, executed,
                 typed, errors>>

----------------------------------------------------------------------------
Next ==
  \/ \E s \in Slots : AddCommand(s)
  \/ Tick \/ TickCrash
  \/ \E c \in Clients : \/ Connected(c) \/ ConnectFails(c) \/ Write(c)
                        \/ Read(c) \/ ConnectionLost(c) \/ Execute(c)
  \/ \E s \in Slots, n \in Nodes : Reshard(s, n)

\* aeMain loops for ever over its timer and its sockets; nodes answer.
Fairness ==
  /\ WF_vars(Tick \/ TickCrash)
  /\ \A c \in Clients : /\ WF_vars(Connected(c)) /\ WF_vars(Write(c))
                        /\ WF_vars(Read(c)) /\ WF_vars(Execute(c))

Spec == Init /\ [][Next]_vars /\ Fairness

----------------------------------------------------------------------------
(***************************************************************************)
(* Properties.                                                             *)
(***************************************************************************)

Cmds == [kind : {"user"}, id : 1..MaxCommands, slot : Slots]
        \cup {ClusterSlots}
Requests == Cmds \cup {LoadLua}
Replies == {[kind |-> "ok"]} \cup [kind : {"moved"}, addr : Nodes]
           \cup [kind : {"slots"}, map : [Slots -> Nodes]]
ClientStates ==
  [made : BOOLEAN, addr : Nodes \cup {NoNode}, newAddr : Nodes \cup {NoNode},
   conn : {"none", "dead", "connecting", "up", "closing", "freed"},
   doing : BOOLEAN, cache : Seq(Cmds), callbacks : Seq({"msg", "lua"}),
   obuf : Seq(Requests)]

\* The types, and what reset() and a freed context leave: nothing is queued
\* without a context, a client that has none has no command under way, and
\* one that was never made is blank.
TypeOK ==
  /\ process \in {"running", "crashed", "aborted"}
  /\ command \in Seq(Cmds) /\ slots \in [Slots -> Nodes \cup {NoNode}]
  /\ client \in [Clients -> ClientStates]
  /\ \A c \in Clients :
       /\ ~client[c].made => client[c] = NoClient
       /\ client[c].conn \in {"none", "freed"}
            => client[c].obuf = <<>> /\ client[c].callbacks = <<>>
       /\ client[c].conn = "none"
            => ~client[c].doing /\ client[c].newAddr = NoNode
  /\ toNode \in [Clients -> Seq(Requests)]
  /\ fromNode \in [Clients -> Seq(Replies)]
  /\ owner \in [Slots -> Nodes] /\ executed \in Seq(Cmds)
  /\ typed \in 0..MaxCommands /\ moves \in 0..MaxMoves /\ errors \in 0..MaxErrors

Contexts == {"connecting", "up", "closing"}

\* An answer that is taken for the one to a command.
ReplyFits(reply, cmd, ex) ==
  /\ reply.kind = "ok" => cmd \in ToSet(ex)
  /\ reply.kind = "moved" => cmd.kind = "user"
  /\ reply.kind = "slots" => cmd = ClusterSlots

\* What the callback at place i stands for: an answer that has arrived or, of
\* the requests sent, one that is still to be answered.
CallbackFits(cl, from, sent, ex, i) ==
  LET arrived == Len(from)
  IN IF cl.callbacks[i] = "lua"
     THEN IF i <= arrived THEN from[i].kind = "ok" ELSE sent[i - arrived] = LoadLua
     ELSE /\ cl.doing /\ cl.cache # <<>>
          /\ IF i <= arrived THEN ReplyFits(from[i], Head(cl.cache), ex)
             ELSE sent[i - arrived] = Head(cl.cache)

Aligned(cl, from, sent, ex) ==
  /\ Len(cl.callbacks) = Len(from) + Len(sent)
  /\ \A i \in 1..Len(cl.callbacks) : CallbackFits(cl, from, sent, ex, i)
  /\ \A i, j \in 1..Len(cl.callbacks) :
       cl.callbacks[i] = "msg" /\ cl.callbacks[j] = "msg" => i = j

\* redisInstance_base.cpp:123: one command, one reply.  The callbacks of a
\* context are those of its answers and requests, in their order; at most one
\* goes on to getMsgback, and its answer is that to the front of m_cacheMsg:
\* no answer is taken for that of another command, nor is the lua script's,
\* and a command that is answered well was executed.
ReplyMatchesFront ==
  \A c \in Clients :
    client[c].conn \in Contexts =>
      Aligned(client[c], fromNode[c], toNode[c] \o client[c].obuf, executed)

Ids(queue) == {queue[i].id : i \in {j \in 1..Len(queue) : queue[j].kind = "user"}}

\* However often a command is answered MOVED and sent again, and whatever
\* connections fail, it is executed at most once.
ExecutedOnce ==
  \A i, j \in 1..Len(executed) : executed[i].id = executed[j].id => i = j

\* The commands for one slot are executed in the order they were typed, across
\* redirections and a slot that changes its master in between.
SlotOrder ==
  \A i, j \in 1..Len(executed) :
    i < j /\ executed[i].slot = executed[j].slot
      => executed[i].id < executed[j].id

\* While no connection has failed, every command typed is waiting in m_command
\* or in the queue of a client, or was executed: a redirection loses none.
Accounted ==
  Running /\ errors = 0 =>
    1..typed \subseteq Ids(command) \cup Ids(executed)
                       \cup UNION {Ids(client[c].cache) : c \in Clients}

\* While no connection fails and the process lives, every command typed is
\* executed: a redirected client comes back to work on its queue.
CommandDone ==
  \A i \in 1..MaxCommands :
    typed >= i ~> i \in Ids(executed) \/ ~Running \/ errors > 0

\* hiredis, async.c:326: "For clean disconnects, there should be no pending
\* callbacks".
NoPendingCallbacks == process # "aborted"
=============================================================================

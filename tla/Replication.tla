----------------------------- MODULE Replication -----------------------------
(***************************************************************************)
(* A master of redis 3.0 and its slaves (replication.c): full and partial  *)
(* resynchronisation with PSYNC, the background save that a full one waits *)
(* for, the stream of commands with the database they select, links that   *)
(* break at either end, and a master that restarts from its dump.          *)
(*                                                                         *)
(* A write is its number and the database it is executed in; a dataset is  *)
(* the sequence of the writes that made it.  In the stream a write is two  *)
(* cells, since a link may break within a command.  For the properties     *)
(* each cell also carries the database that is selected after it and the   *)
(* length of the dataset that the stream has made with it.                 *)
(***************************************************************************)
EXTENDS Backlog, FiniteSets

CONSTANTS Slaves,
          Groups,     \* sets of slaves that are tried
          Conns,      \* connections, an ordered set of numbers
          Dbs,        \* numbers of databases, 0 among them
          Size,       \* repl-backlog-size, in cells
          MaxEvents   \* bound, by the number of slaves: writes, PINGs, BGSAVEs
                      \* of users, and faults: broken links, failed saves,
                      \* restarts of the master

NoDb == 100   \* -1
NoConn == 0
NoRun == 0    \* "?"

ASSUME ReplicationConstants ==
  /\ Conns \subseteq Nat \ {NoConn} /\ Dbs \subseteq 0..NoDb - 1 /\ 0 \in Dbs
  /\ Groups \subseteq SUBSET Slaves
  /\ Size \in Nat \ {0} /\ MaxEvents \in Seq(Nat)

VARIABLES
  mdata,      \* the master's dataset
  runid,      \* server.runid
  stream,     \* history: what has been fed since the master started
  backlog,    \* server.repl_backlog, or NoBacklog
  slaveseldb, \* the database selected in the stream
  child,      \* the dataset BGSAVE is writing, or NoChild
  dump,       \* the dataset in dump.rdb
  client,     \* the master's client of each connection
  wire,       \* what is on its way to the slave
  slave,      \* the slaves
  writes, events  \* counters

masterVars == <<mdata, runid, stream, backlog, slaveseldb, child, dump>>
vars == <<masterVars, client, wire, slave, writes, events>>

Cell(kind, db, id, len) == [kind |-> kind, db |-> db, id |-> id, len |-> len]
NoBacklog == [size |-> 0]
NoChild == <<[kind |-> "no child"]>>

\* A server that is no slave is REDIS_REPL_NONE.
Servers == {s \in Slaves : slave[s].state # "none"}
MoreEvents == writes + events < MaxEvents[Cardinality(Servers)]

\* A client that is no slave has state "none".
NoClient == [state |-> "none", buf |-> <<>>, rdb |-> <<>>]
Attached == {c \in Conns : client[c].state # "none"}
In(state) == {c \in Conns : client[c].state = state}

\* origin is history: the slave's last full resynchronisation had a BGSAVE of
\* its "own", started for it when it asked, or it "shared" another one's or
\* waited for the next; or it has since "resumed" from there.
NewSlave(state) ==
  [state |-> state, conn |-> NoConn, data |-> <<>>, db |-> 0, half |-> FALSE,
   runid |-> NoRun, reploff |-> 0, origin |-> "own"]

Init ==
  /\ mdata = <<>> /\ runid = 1 /\ stream = <<>> /\ backlog = NoBacklog
  /\ slaveseldb = NoDb /\ child = NoChild /\ dump = <<>>
  /\ client = [c \in Conns |-> NoClient] /\ wire = [c \in Conns |-> <<>>]
  /\ \E some \in Groups :
       slave = [s \in Slaves |-> NewSlave(IF s \in some THEN "connect" ELSE "none")]
  /\ writes = 0 /\ events = 0

-----------------------------------------------------------------------------
(***************************************************************************)
(* The master.                                                             *)
(***************************************************************************)
\* replicationFeedSlaves: a SELECT goes to every slave, also to one that waits
\* for its BGSAVE to start, the command to the others.
FeedSlaves(db, cells) ==
  LET sel == IF slaveseldb = db THEN <<>> ELSE <<Cell("select", db, 0, Len(mdata))>>
      all == sel \o cells
      For(state) == IF state = "start" THEN sel ELSE all
  IN IF backlog = NoBacklog /\ Attached = {}
     THEN UNCHANGED <<stream, backlog, slaveseldb, client, wire>>
     ELSE /\ stream' = stream \o all
          /\ backlog' = FeedCells(backlog, Len(stream), all)
          /\ slaveseldb' = db
          /\ client' = [c \in Conns |->
               IF client[c].state \in {"none", "online"} THEN client[c]
               ELSE [client[c] EXCEPT !.buf = @ \o For(client[c].state)]]
          /\ wire' = [c \in Conns |->
               IF client[c].state = "online" THEN wire[c] \o all ELSE wire[c]]

Write(db) ==
  LET id == writes + 1
      len == Len(mdata)
  IN
  /\ MoreEvents
  /\ writes' = id /\ mdata' = Append(mdata, [id |-> id, db |-> db])
  /\ FeedSlaves(db, <<Cell("head", db, id, len), Cell("tail", db, id, len + 1)>>)
  /\ UNCHANGED <<runid, child, dump, slave, events>>

\* replicationCron.
Ping ==
  /\ MoreEvents /\ events' = events + 1
  /\ FeedSlaves(slaveseldb, <<Cell("ping", slaveseldb, 0, Len(mdata))>>)
  /\ UNCHANGED <<mdata, runid, child, dump, slave, writes>>

\* BGSAVE, for the dump alone.
Bgsave ==
  /\ child = NoChild /\ child' = mdata
  /\ MoreEvents /\ events' = events + 1
  /\ UNCHANGED <<mdata, runid, stream, backlog, slaveseldb, dump, client, wire,
                 slave, writes>>

Free(c) == c \notin Attached /\ \A s \in Slaves : slave[s].conn # c
Fresh(c) == Free(c) /\ \A d \in Conns : Free(d) => c <= d

FullResync(run, offset, origin) ==
  [kind |-> "fullresync", runid |-> run, offset |-> offset, origin |-> origin]
Continue == [kind |-> "continue"]
Rdb(data) == [kind |-> "rdb", data |-> data]

\* The slaves that wait for the end of BGSAVE, any of which may be the first of
\* the list; copyClientOutputBuffer takes what it is to be sent.
JoinBgsave_Empty(donor) == [NoClient EXCEPT !.state = "end"]
JoinBgsave(donor) == [NoClient EXCEPT !.state = "end", !.buf = client[donor].buf]

MayContinue(s) == /\ slave[s].runid = runid /\ backlog # NoBacklog
                  /\ HasOffset(backlog, slave[s].reploff + 1)

Asks(x, c) == [x EXCEPT !.state = "psync", !.conn = c]

AfterSync_KeepDb == slaveseldb
AfterSync == NoDb

\* A slave connects and the master answers its PSYNC; the slave waits for the
\* answer (slaveTryPartialResynchronization).
Connects(s, c) ==
  /\ slave[s].state = "connect" /\ Fresh(c)
  /\ slave' = [slave EXCEPT ![s] = Asks(slave[s], c)]

\* masterTryPartialResynchronization, which accepts.
PartialSync(s, c) ==
  /\ Connects(s, c) /\ MayContinue(s)
  /\ client' = [client EXCEPT ![c] = [NoClient EXCEPT !.state = "online"]]
  /\ wire' = [wire EXCEPT ![c] =
       <<Continue>> \o FromBacklog(backlog, slave[s].reploff + 1)]
  /\ UNCHANGED <<masterVars, writes, events>>

\* syncCommand.  createReplicationBacklog raises master_repl_offset by one, for
\* which there is no cell but a void one.
FullSync(s, c) ==
  LET creates == backlog = NoBacklog /\ Attached = {}
      offset == Len(stream) + (IF backlog = NoBacklog THEN 1 ELSE 0)
      own == child = NoChild
  IN /\ Connects(s, c) /\ ~MayContinue(s)
     /\ \E new \in IF own THEN {[NoClient EXCEPT !.state = "end"]}
                   ELSE IF In("end") # {} THEN {JoinBgsave(d) : d \in In("end")}
                   ELSE {[NoClient EXCEPT !.state = "start"]} :
          client' = [client EXCEPT ![c] = new]
     /\ child' = IF own THEN mdata ELSE child
     /\ slaveseldb' = AfterSync
     /\ IF creates
        THEN /\ stream' = Append(stream, Cell("void", NoDb, 0, Len(mdata)))
             /\ backlog' = NewBacklog(Size, Len(stream) + 1, Cell("void", NoDb, 0, 0))
        ELSE UNCHANGED <<stream, backlog>>
     /\ wire' = [wire EXCEPT ![c] =
          <<FullResync(runid, offset, IF own THEN "own" ELSE "shared")>>]
     /\ UNCHANGED <<mdata, runid, dump, writes, events>>

SyncCommand(s) == \E c \in Conns : PartialSync(s, c) \/ FullSync(s, c)

NextChild_None == NoChild
NextChild == IF In("start") # {} THEN mdata ELSE NoChild

\* backgroundSaveDoneHandlerDisk and updateSlavesWaitingBgsave: the file goes to
\* the slaves that waited for it, and a new BGSAVE is started for the others.
BgsaveDone(ok) ==
  /\ child # NoChild
  /\ ok \/ MoreEvents
  /\ events' = IF ok THEN events ELSE events + 1
  /\ dump' = IF ok THEN child ELSE dump
  /\ client' = [c \in Conns |->
       CASE client[c].state = "start" -> [client[c] EXCEPT !.state = "end"]
         [] client[c].state = "end" /\ ok ->
              [client[c] EXCEPT !.state = "bulk", !.rdb = child]
         [] client[c].state = "end" /\ ~ok -> NoClient
         [] OTHER -> client[c]]
  /\ child' = NextChild
  /\ UNCHANGED <<mdata, runid, stream, backlog, slaveseldb, wire, slave, writes>>

\* sendBulkToSlave to its end, and putSlaveOnline.
SendBulk(c) ==
  /\ client[c].state = "bulk"
  /\ wire' = [wire EXCEPT ![c] = wire[c] \o <<Rdb(client[c].rdb)>> \o client[c].buf]
  /\ client' = [client EXCEPT ![c] = [NoClient EXCEPT !.state = "online"]]
  /\ UNCHANGED <<masterVars, slave, writes, events>>

\* replicationCron, repl-backlog-ttl.
FreeBacklog ==
  /\ backlog # NoBacklog /\ Attached = {} /\ backlog' = NoBacklog
  /\ UNCHANGED <<mdata, runid, stream, slaveseldb, child, dump, client, wire,
                 slave, writes, events>>

\* The master dies and comes back with what its dump has.
Restart ==
  /\ MoreEvents /\ events' = events + 1
  /\ mdata' = dump /\ runid' = runid + 1 /\ stream' = <<>>
  /\ backlog' = NoBacklog /\ slaveseldb' = NoDb /\ child' = NoChild
  /\ client' = [c \in Conns |-> NoClient]
  /\ UNCHANGED <<dump, wire, slave, writes>>

\* freeClient of a slave: its link has been lost, or it has timed out.
Gone(c) == \A s \in Slaves : slave[s].conn # c
MasterLoses(c) ==
  /\ c \in Attached
  /\ Gone(c) \/ MoreEvents
  /\ events' = IF Gone(c) THEN events ELSE events + 1
  /\ client' = [client EXCEPT ![c] = NoClient]
  /\ UNCHANGED <<masterVars, wire, slave, writes>>

-----------------------------------------------------------------------------
(***************************************************************************)
(* The slaves.                                                             *)
(***************************************************************************)
\* processInputBuffer: what a slave's dataset is after a cell.  The second half
\* of a command without the first is not a command.
Execute(x, cell) ==
  CASE cell.kind = "select" -> [x EXCEPT !.db = cell.db, !.half = FALSE]
    [] cell.kind = "head" -> [x EXCEPT !.half = TRUE]
    [] cell.kind = "tail" /\ x.half ->
         [x EXCEPT !.half = FALSE, !.data = Append(x.data, [id |-> cell.id, db |-> x.db])]
    [] OTHER -> [x EXCEPT !.half = FALSE]

\* readQueryFromClient counts what it reads, executed or not.
Read(x, cell) == [Execute(x, cell) EXCEPT !.reploff = x.reploff + 1]

\* +FULLRESYNC; the offset is the one the new master's client starts with.
Accept(x, answer) == [x EXCEPT !.state = "transfer", !.runid = answer.runid,
                               !.reploff = answer.offset, !.origin = answer.origin]

\* readSyncBulkPayload: a new client, which has selected no database yet.
Load(x, data) ==
  [x EXCEPT !.state = "connected", !.data = data, !.db = 0, !.half = FALSE]

\* replicationResurrectCachedMaster
Resurrect(x) == [x EXCEPT !.state = "connected",
                          !.origin = IF x.origin = "own" THEN "own" ELSE "resumed"]

\* The answer to PSYNC, then the dataset, then the stream.
SlaveReads(s) ==
  LET c == slave[s].conn
      x == slave[s]
      item == Head(wire[c])
  IN /\ c # NoConn /\ wire[c] # <<>>
     /\ wire' = [wire EXCEPT ![c] = Tail(wire[c])]
     /\ slave' = [slave EXCEPT ![s] =
          CASE item.kind = "continue" -> Resurrect(x)
            [] item.kind = "fullresync" -> Accept(x, item)
            [] item.kind = "rdb" -> Load(x, item.data)
            [] OTHER -> Read(x, item)]
     /\ UNCHANGED <<masterVars, client, writes, events>>

\* Only the client of a master that was connected is cached; an answer to PSYNC
\* that does not come discards it (slaveTryPartialResynchronization).
CacheMaster_KeepsFd(x) ==
  [x EXCEPT !.state = "connect",
            !.runid = IF x.state = "connected" THEN x.runid ELSE NoRun]
CacheMaster(x) ==
  [x EXCEPT !.state = "connect", !.conn = NoConn,
            !.runid = IF x.state = "connected" THEN x.runid ELSE NoRun]
SlaveLoses(s) ==
  LET c == slave[s].conn
      closed == client[c].state = "none"
  IN /\ c # NoConn
     /\ closed \/ MoreEvents
     /\ events' = IF closed THEN events ELSE events + 1
     /\ slave' = [slave EXCEPT ![s] = CacheMaster(slave[s])]
     /\ wire' = [wire EXCEPT ![c] = <<>>]
     /\ UNCHANGED <<masterVars, client, writes>>

-----------------------------------------------------------------------------
MasterStep == \/ \E db \in Dbs : Write(db)
              \/ Ping \/ Bgsave \/ FreeBacklog \/ Restart
              \/ \E ok \in BOOLEAN : BgsaveDone(ok)
              \/ \E c \in Conns : SendBulk(c) \/ MasterLoses(c)
SlaveStep == \E s \in Slaves : SyncCommand(s) \/ SlaveReads(s) \/ SlaveLoses(s)

Next == MasterStep \/ SlaveStep

\* replicationCron runs every second, a child comes to its end, and both ends
\* read and write as long as there is something; a closed connection is found.
Fairness ==
  /\ WF_vars(BgsaveDone(TRUE))
  /\ \A c \in Conns : WF_vars(SendBulk(c)) /\ WF_vars(MasterLoses(c) /\ Gone(c))
  /\ \A s \in Slaves :
       /\ WF_vars(SyncCommand(s)) /\ WF_vars(SlaveReads(s))
       /\ WF_vars(SlaveLoses(s) /\ client[slave[s].conn].state = "none")

Spec == Init /\ [][Next]_vars /\ Fairness

-----------------------------------------------------------------------------
\* What the stream leaves of a slave that reads all of the cells.
Reads(x, cells) ==
  LET after[i \in 0..Len(cells)] ==
        IF i = 0 THEN x ELSE Read(after[i - 1], cells[i])
  IN after[Len(cells)]

\* The dataset that the stream has made up to an offset.
DataAt(offset) == SubSeq(mdata, 1, stream[offset].len)

OfThisRun(s) == slave[s].runid = runid /\ slave[s].state \in {"connect", "connected"}
Online(s) == /\ slave[s].state = "connected" /\ client[slave[s].conn].state = "online"

(***************************************************************************)
(* The backlog, wherever it has wrapped, answers each offset it accepts    *)
(* with the stream from there on (addReplyReplicationBacklog); and there   *)
(* are no slaves without one ("We can't have slaves attached and no        *)
(* backlog", replicationFeedSlaves).                                       *)
(***************************************************************************)
BacklogServes == IF backlog = NoBacklog THEN Attached = {}
                 ELSE SendsTheStream(backlog, stream)

(***************************************************************************)
(* A slave that started from a BGSAVE of its own has executed, in the      *)
(* right databases, the writes that the stream had at its offset, whatever *)
(* links broke within a command: the offset with which it asks to continue *)
(* is right.                                                               *)
(***************************************************************************)
OffsetNamesData ==
  \A s \in Slaves : OfThisRun(s) /\ slave[s].origin = "own" =>
    slave[s].data = DataAt(slave[s].reploff)

(***************************************************************************)
(* What is on its way to a connected slave completes its dataset to the    *)
(* master's, also if it shares the differences of another slave or waited  *)
(* for a BGSAVE (copyClientOutputBuffer, updateSlavesWaitingBgsave) -      *)
(* unless it has resumed from the offset it was told then.                 *)
(***************************************************************************)
StreamCompletes ==
  \A s \in Slaves : Online(s) /\ slave[s].origin # "resumed" =>
    Reads(slave[s], wire[slave[s].conn]).data = mdata

(***************************************************************************)
(* replicationResurrectCachedMaster: "the stream of data that we'll        *)
(* receive will start from were this master left".                         *)
(***************************************************************************)
ContinuesWhereItLeft ==
  \A s \in Slaves : Online(s) => Reads(slave[s], wire[slave[s].conn]).data = mdata

(***************************************************************************)
(* When the links have stopped breaking every slave has the master's data, *)
(* the resumed ones excepted.                                              *)
(***************************************************************************)
SlavesCatchUp ==
  \A s \in Slaves : <>[](slave[s].state = "none" \/ slave[s].origin = "resumed"
                         \/ slave[s].data = mdata)

TypeOK ==
  /\ slaveseldb \in Dbs \cup {NoDb}
  /\ \A c \in Conns : client[c].state \in {"none", "start", "end", "bulk", "online"}
  /\ \A s \in Slaves :
       /\ slave[s].state \in {"none", "connect", "psync", "transfer", "connected"}
       /\ slave[s].conn \in Conns \cup {NoConn}
       /\ (slave[s].conn = NoConn) = (slave[s].state \in {"none", "connect"})
       /\ slave[s].db \in Dbs
       /\ slave[s].reploff \in Nat
=============================================================================

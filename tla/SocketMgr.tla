------------------------------ MODULE SocketMgr ------------------------------
(***************************************************************************)
(* The loop over all sockets of the cache server (socketMgr.cpp): one pass *)
(* runs every node of m_node, a vector of pointers, and then erases the    *)
(* closed ones.  Running the listener accepts connections and appends      *)
(* their nodes to the vector that is being iterated; when it has no room   *)
(* its elements move and the pass goes on over the memory they had.        *)
(***************************************************************************)
EXTENDS Naturals, Sequences, FiniteSets, SequencesExt

CONSTANTS Conns,  \* connections of world servers
          Db,     \* the node of the database connection
          Listen  \* the listening node

ASSUME SocketMgrConstants ==
  IsFiniteSet(Conns) /\ Db \notin Conns /\ Listen \notin Conns /\ Db # Listen

VARIABLES
  m_node,    \* the vector
  capacity,  \* how many elements it has room for
  pass,      \* the elements the range-for goes over, <<>> between passes
  pos,       \* the next of them
  moved,     \* the vector has been reallocated in this pass
  sock,      \* "none", "backlog", "open", "lost", "closed", "deleted"
  served,    \* history: the connections whose node has been run
  crashed,   \* by what was found there
  touched,   \* history: elements have been read from freed memory
  peak       \* history: the largest number of connections in m_node

mgrVars == <<m_node, capacity, pass, pos, moved, sock, served, crashed, touched, peak>>

NumConns(nodes) == Cardinality(Range(nodes) \cap Conns)

\* test3 registers the database and then the listener; a push_back doubles
\* the room when there is none.
MgrInit ==
  /\ m_node = <<Db, Listen>> /\ capacity = 2
  /\ pass = <<>> /\ pos = 1 /\ moved = FALSE
  /\ sock = [c \in Conns |-> "none"]
  /\ served = {} /\ crashed = FALSE /\ touched = FALSE /\ peak = 0

Room_Exact(n, room) == IF n <= room THEN room ELSE n
\* The room after push_backs up to n elements: it doubles when there is none.
Room(n, room) ==
  LET doubled[i \in 0..n] ==
        IF i = 0 THEN room
        ELSE IF n <= doubled[i - 1] THEN doubled[i - 1] ELSE 2 * doubled[i - 1]
  IN doubled[n]

BeginPass ==
  /\ pass = <<>>
  /\ pass' = m_node /\ pos' = 1 /\ moved' = FALSE
  /\ UNCHANGED <<m_node, capacity, sock, served, crashed, touched, peak>>

Visiting(n) == ~crashed /\ pos <= Len(pass) /\ pass[pos] = n
\* In freed memory that is not yet used again the pointers are still there.
Visited == /\ pos' = pos + 1
           /\ touched' = (touched \/ moved)
           /\ UNCHANGED <<pass, crashed>>

ReadGarbage ==
  /\ ~crashed /\ moved /\ pos <= Len(pass)
  /\ crashed' = TRUE /\ touched' = TRUE
  /\ UNCHANGED <<m_node, capacity, pass, pos, moved, sock, served, peak>>

\* The database's node runs; what it does is CacheServer's.
RunDb ==
  /\ Visiting(Db) /\ Visited
  /\ UNCHANGED <<m_node, capacity, moved, sock, served, peak>>

\* while (hasAccept()) accept_node().
RunListener ==
  /\ Visiting(Listen) /\ Visited
  /\ \E new \in SetToSeqs({c \in Conns : sock[c] = "backlog"}) :
       /\ m_node' = m_node \o new
       /\ capacity' = Room(Len(m_node'), capacity)
       /\ moved' = (moved \/ capacity' # capacity)
       /\ sock' = [c \in Conns |-> IF sock[c] = "backlog" THEN "open"
                                   ELSE sock[c]]
       /\ peak' = IF NumConns(m_node') > peak THEN NumConns(m_node') ELSE peak
  /\ UNCHANGED served

\* A connection that is lost is closed by one run and marked by the next one.
RunConn(c) ==
  /\ Visiting(c) /\ Visited
  /\ sock' = [sock EXCEPT ![c] = CASE @ = "lost" -> "closed"
                                   [] @ = "closed" -> "deleted"
                                   [] OTHER -> @]
  /\ served' = served \cup {c}
  /\ UNCHANGED <<m_node, capacity, moved, peak>>

Deleted(n) == n \in Conns /\ sock[n] = "deleted"
Kept_UpToOne(nodes) ==
  LET i == SelectInSeq(nodes, Deleted)
  IN IF i = 0 THEN nodes ELSE SubSeq(nodes, 1, i - 1)
Kept(nodes) ==
  LET kept[i \in 0..Len(nodes)] ==
        IF i = 0 THEN <<>>
        ELSE IF Deleted(nodes[i]) THEN kept[i - 1]
        ELSE Append(kept[i - 1], nodes[i])
  IN kept[Len(nodes)]
EndPass ==
  /\ ~crashed /\ pass # <<>> /\ pos > Len(pass)
  /\ m_node' = Kept(m_node)
  /\ pass' = <<>> /\ pos' = 1 /\ moved' = FALSE
  /\ UNCHANGED <<capacity, sock, served, crashed, touched, peak>>

Connects(c) == /\ sock[c] = "none" /\ sock' = [sock EXCEPT ![c] = "backlog"]
               /\ UNCHANGED <<m_node, capacity, pass, pos, moved, served,
                              crashed, touched, peak>>
Loses(c) == /\ sock[c] = "open" /\ sock' = [sock EXCEPT ![c] = "lost"]
            /\ UNCHANGED <<m_node, capacity, pass, pos, moved, served,
                           crashed, touched, peak>>

MgrLoop == BeginPass \/ RunDb \/ RunListener \/ (\E c \in Conns : RunConn(c))
           \/ EndPass
MgrNext == MgrLoop \/ ReadGarbage \/ (\E c \in Conns : Connects(c) \/ Loses(c))

\* socket_run is a loop without end.
MgrSpec == MgrInit /\ [][MgrNext]_mgrVars /\ WF_mgrVars(MgrLoop)

-----------------------------------------------------------------------------
(***************************************************************************)
(* The pass over m_node (socketMgr.cpp:11) reads memory that was freed by  *)
(* regist only after three connections have stood at one time: the vector  *)
(* moves at the first, while the listener is its last element, and has     *)
(* room for the second.                                                    *)
(***************************************************************************)
FreedNeedsThree == touched => peak >= 3

(***************************************************************************)
(* Every connection that is accepted is run, although the pass in which it *)
(* is accepted does not reach it, and a lost one goes from the vector.     *)
(***************************************************************************)
AllServed ==
  \A c \in Conns : /\ sock[c] = "open" ~> c \in served \/ crashed
                   /\ sock[c] = "lost" ~> c \notin Range(m_node) \/ crashed
=============================================================================

----------------------------- MODULE RecordPath -----------------------------
(***************************************************************************)
(* What the conversions on the way do to a player's record: the world      *)
(* server writes it into a packet (ByteBuffer, WorkPacket), the cache      *)
(* server reads it and stores it in redis as a C string, and writes it     *)
(* into packets again for the database and for the world server.           *)
(* CacheServer has records as versions; the bytes are here.                *)
(*                                                                         *)
(* A packet's storage is a sequence of cells: an integer, the length of a  *)
(* string, a byte.  Lengths are kept modulo Modulus, 2^16 in the code.     *)
(***************************************************************************)
EXTENDS Naturals, Sequences, SequencesExt

CONSTANTS Modulus,  \* of a string's length
          Records,  \* the records that are saved
          Nil       \* the record "nil"

ASSUME RecordConstants ==
  Modulus \in Nat \ {0} /\ Records \subseteq Seq(Nat) /\ Nil \in Seq(Nat)

VARIABLES record,   \* what the world server saves
          account,  \* whose it is
          packet,   \* the packet on its way, its type and storage
          cached,   \* the field of the hash in redis
          got       \* what the readers have taken out: accounts and records

pathVars == <<record, account, packet, cached, got>>

Zero == 0  \* the byte that ends a C string
Account == 7
Hall == 1
NoHall == 0  \* -1: the load at start

CString(s) ==
  LET zeros == {i \in 1..Len(s) : s[i] = Zero}
  IN IF zeros = {} THEN s ELSE SubSeq(s, 1, Min(zeros) - 1)

-----------------------------------------------------------------------------
(***************************************************************************)
(* ByteBuffer.  Reading gives the value and the position after it, or      *)
(* throws.                                                                 *)
(***************************************************************************)
IntCell(n) == [is |-> "int", val |-> n]
PutInt(buf, n) == Append(buf, IntCell(n))

\* Of a string that is too long the first bytes are written.
PutString(buf, s) ==
  Append(buf, [is |-> "length", val |-> Len(s) % Modulus])
  \o [i \in 1..Len(s) % Modulus |-> [is |-> "byte", val |-> s[i]]]

Thrown == [ok |-> FALSE]
GetInt(buf, rpos) ==
  IF rpos > Len(buf) THEN Thrown
  ELSE [ok |-> TRUE, val |-> buf[rpos].val, rpos |-> rpos + 1]
GetString_WithLength(buf, rpos) ==
  LET len == GetInt(buf, rpos) IN
  IF ~len.ok \/ rpos + len.val > Len(buf) THEN Thrown
  ELSE [ok |-> TRUE, rpos |-> rpos + 1 + len.val,
        val |-> [i \in 1..len.val |-> buf[rpos + i - 1].val]]
GetString(buf, rpos) ==
  LET len == GetInt(buf, rpos) IN
  IF ~len.ok \/ rpos + len.val > Len(buf) THEN Thrown
  ELSE [ok |-> TRUE, rpos |-> rpos + 1 + len.val,
        val |-> [i \in 1..len.val |-> buf[rpos + i].val]]

\* A handler's reads, one after the other.
NextField(buf, sofar, kind) ==
  LET r == IF kind = "int" THEN GetInt(buf, sofar.rpos)
           ELSE GetString(buf, sofar.rpos)
  IN IF sofar.ok /\ r.ok
     THEN [ok |-> TRUE, rpos |-> r.rpos, vals |-> Append(sofar.vals, r.val)]
     ELSE [sofar EXCEPT !.ok = FALSE]
Fields(buf, kinds) ==
  LET read[i \in 0..Len(kinds)] ==
        IF i = 0 THEN [ok |-> TRUE, rpos |-> 1, vals |-> <<>>]
        ELSE NextField(buf, read[i - 1], kinds[i])
  IN read[Len(kinds)]

NoPacket == [type |-> "none", acc |-> 0, buf |-> <<>>]
Packet(type, acc, buf) == [type |-> type, acc |-> acc, buf |-> buf]
NoField == [is |-> "none", val |-> <<>>]
Field(s) == [is |-> "field", val |-> CString(s)]

PathInit ==
  /\ record \in Records /\ account = Account
  /\ packet = NoPacket /\ cached = NoField /\ got = {}

-----------------------------------------------------------------------------
\* The world server saves: the account in the packet's head.  (External: as
\* the handler of the message reads it.)
Save ==
  /\ packet = NoPacket /\ cached = NoField
  /\ packet' = Packet("SAVEPLAYERINFO", account, PutString(<<>>, record))
  /\ UNCHANGED <<record, account, cached, got>>

Reads(type) == packet.type = type
Exception == /\ packet' = [packet EXCEPT !.type = "exception"]
             /\ UNCHANGED <<record, account, cached, got>>

\* Socket_Cache: pack >> strMsg, then hset with strMsg.c_str().
StoreSave ==
  /\ Reads("SAVEPLAYERINFO")
  /\ LET f == Fields(packet.buf, <<"string">>) IN
     IF ~f.ok THEN Exception
     ELSE /\ cached' = Field(f.vals[1])
          /\ packet' = NoPacket
          /\ UNCHANGED <<record, account, got>>

\* saveAllCacheToDb and handle_dbSavePlayerInfo.
SaveToDb ==
  /\ packet = NoPacket /\ cached # NoField
  /\ packet' = Packet("REDIS_2_DB_SAVEPLAYERINFO", 0,
                      PutString(PutInt(<<>>, account), cached.val))
  /\ UNCHANGED <<record, account, cached, got>>

\* The database reads what was written.  (External.)  It sends the record
\* back at the next start, or for a login.
DbReads ==
  /\ Reads("REDIS_2_DB_SAVEPLAYERINFO")
  /\ LET f == Fields(packet.buf, <<"int", "string">>) IN
     IF ~f.ok THEN Exception
     ELSE /\ got' = got \cup {<<"db", f.vals[1], f.vals[2]>>}
          /\ \E hall \in {Hall, NoHall} :
               packet' = Packet("DB_2_REDIS_ALLPLAYERINFO", 0,
                 PutString(PutInt(PutInt(<<>>, hall), f.vals[1]), f.vals[2]))
          /\ UNCHANGED <<record, account, cached>>

HandleDbCache_NoHall ==
  /\ Reads("DB_2_REDIS_ALLPLAYERINFO")
  /\ LET f == Fields(packet.buf, <<"int", "int", "string">>) IN
     IF ~f.ok THEN Exception
     ELSE /\ cached' = Field(f.vals[3])
          /\ packet' = IF f.vals[1] = NoHall THEN NoPacket
                       ELSE Packet("REDIS_WS_LOADPLAYERINFO", 0,
                         PutString(PutInt(<<>>, f.vals[2]), f.vals[3]))
          /\ UNCHANGED <<record, account, got>>
\* handle_dbCache: into the cache, and on to the world server that asked.
HandleDbCache ==
  /\ Reads("DB_2_REDIS_ALLPLAYERINFO")
  /\ LET f == Fields(packet.buf, <<"int", "int", "string">>) IN
     IF ~f.ok THEN Exception
     ELSE /\ cached' = Field(f.vals[3])
          /\ packet' = IF f.vals[1] = NoHall THEN NoPacket
                       ELSE Packet("REDIS_WS_LOADPLAYERINFO", 0,
                         PutString(PutInt(PutInt(<<>>, f.vals[1]), f.vals[2]), f.vals[3]))
          /\ UNCHANGED <<record, account, got>>

\* loadPlayerInfo: a field that is empty, or reads "nil", is taken for none.
LoadPlayerInfo ==
  /\ packet = NoPacket /\ cached \notin {NoField, Field(<<>>), Field(Nil)}
  /\ packet' = Packet("REDIS_WS_LOADPLAYERINFO", 0,
       PutString(PutInt(PutInt(<<>>, Hall), account), cached.val))
  /\ UNCHANGED <<record, account, cached, got>>

WorldReads ==
  /\ Reads("REDIS_WS_LOADPLAYERINFO")
  /\ LET f == Fields(packet.buf, <<"int", "int", "string">>) IN
     IF ~f.ok THEN Exception
     ELSE /\ got' = got \cup {<<"world", f.vals[2], f.vals[3]>>}
          /\ packet' = NoPacket
          /\ UNCHANGED <<record, account, cached>>

PathNext == \/ Save \/ StoreSave \/ SaveToDb \/ DbReads \/ HandleDbCache
            \/ LoadPlayerInfo \/ WorldReads

PathSpec == PathInit /\ [][PathNext]_pathVars

-----------------------------------------------------------------------------
(***************************************************************************)
(* Whatever goes round in this system has been cut at most once, where it  *)
(* entered: to its length modulo 2^16 by the first packet (byteBuffer.h:   *)
(* 128), at its first zero byte by redis.  Everything that is read later   *)
(* is that, under the right account.                                       *)
(***************************************************************************)
Carried == CString(SubSeq(record, 1, Len(record) % Modulus))
CutOnce == \A g \in got : g[2] = account /\ g[3] = Carried

\* No packet of this program is read past its end, which would throw through
\* the loop of all sockets.
NoException == packet.type # "exception"
=============================================================================

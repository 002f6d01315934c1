------------------------------ MODULE SlotTable ------------------------------
(***************************************************************************)
(* How the cluster client finds the master of a key: the reply of redis to *)
(* CLUSTER SLOTS (clusterReplyMultiBulkSlots) is printed as text with the  *)
(* indentation of redis-cli (getMsgback_str) and parsed back line by line  *)
(* (parseSlots); a key's slot is its CRC (tool.cpp), which the server      *)
(* takes of the key's tag only (keyHashSlot).                              *)
(*                                                                         *)
(* Decimal numbers are written in base Base here, so that a reply whose    *)
(* indexes need two digits is small; NSlots stands for 16384.              *)
(***************************************************************************)
EXTENDS Integers, Sequences, SequencesExt

CONSTANTS NSlots,    \* a power of two
          Crc(_),    \* the CRC of a key, crc16 of module KeyCrc
          Masters,   \* in the order in which the server lists its nodes
          NoOne,     \* an unassigned slot
          Replica,   \* the address of any replica
          Base,      \* of the printed indexes
          Owners,    \* the owners of the slots that are tried
          Digits1,   \* digits of the first number of a master's address, tried
          Slaves,    \* live replicas of every master, tried
          Keys       \* keys, as sequences of bytes

ASSUME SlotConstants ==
  /\ NSlots \in Nat \ {0} /\ Base \in Nat /\ Base > 4
  /\ Masters \in Seq(ToSet(Masters)) /\ NoOne \notin ToSet(Masters)
  /\ Replica \notin ToSet(Masters) \cup {NoOne}
  /\ Owners \subseteq [0..NSlots - 1 -> ToSet(Masters) \cup {NoOne}]
  /\ Digits1 \subseteq [ToSet(Masters) -> 1..3] /\ Slaves \subseteq Nat
  /\ Keys \subseteq Seq(0..255) /\ \A key \in Keys : Crc(key) \in Nat

VARIABLES owner,   \* the cluster: the owner of each slot
          digits,  \* the addresses of the masters
          slaves,  \* the number of live replicas of each
          lines,   \* what parseSlots has not read of the printed reply
          infos,   \* m_slots
          parser   \* "runs", "loops" for ever, or "undefined" after a write
                   \* out of bounds

clusterVars == <<owner, digits, slaves>>
slotVars == <<clusterVars, lines, infos, parser>>

-----------------------------------------------------------------------------
(***************************************************************************)
(* The slot of a key.                                                      *)
(***************************************************************************)
Slot(buf) == Crc(buf) % NSlots

\* getKeysSlots
ClientSlot(key) == Slot(key)

OpenBrace == 123
CloseBrace == 125
\* The first place of byte c in key from place i on, or the place after its end.
Find(key, c, i) == CHOOSE j \in i..Len(key) + 1 :
  /\ j = Len(key) + 1 \/ key[j] = c
  /\ \A k \in i..j - 1 : key[k] # c

KeyHashSlot_EmptyTag(key) ==
  LET s == Find(key, OpenBrace, 1)
      e == Find(key, CloseBrace, s + 1)
  IN IF s > Len(key) \/ e > Len(key) THEN Slot(key)
     ELSE Slot(SubSeq(key, s + 1, e - 1))
KeyHashSlot(key) ==
  LET s == Find(key, OpenBrace, 1)
      e == Find(key, CloseBrace, s + 1)
  IN IF s > Len(key) \/ e > Len(key) \/ e = s + 1 THEN Slot(key)
     ELSE Slot(SubSeq(key, s + 1, e - 1))

-----------------------------------------------------------------------------
(***************************************************************************)
(* The reply and its text.                                                 *)
(***************************************************************************)
\* The scan closes a run at the next slot without the bit, or with the last.
RunEnd(m, a) ==
  CHOOSE b \in a..NSlots - 1 : /\ b = NSlots - 1 \/ owner[b + 1] # m
                               /\ \A j \in a..b : owner[j] = m

RangeAt(m, a) ==
  IF owner[a] = m /\ (a = 0 \/ owner[a - 1] # m)
  THEN <<[min |-> a, max |-> RunEnd(m, a), master |-> m]>>
  ELSE <<>>
RangesOf(m) == FlattenSeq([i \in 1..NSlots |-> RangeAt(m, i - 1)])

Ranges == FlattenSeq([i \in 1..Len(Masters) |-> RangesOf(Masters[i])])

\* The digits of n: one, and one more each time that something is left when it
\* is divided, which is n \div Base times at most.
Width_One(n) == 1
Width(n) ==
  LET most == n \div Base
      rest[i \in 0..most] == IF i = 0 THEN n ELSE rest[i - 1] \div Base
  IN 1 + Cardinality({i \in 1..most : rest[i] # 0})
Indent_Short(n) == Width(n) + 1
\* What the elements of an array of n are moved in by.
Indent(n) == Width(n) + 2
Line(blanks, kind, val) == [blanks |-> blanks, kind |-> kind, val |-> val]
Port == 1

\* The text of range i of n: k elements, the first two its bounds, then the
\* address and port of the master and of its replicas.  The first element of
\* an array stands on the line of its index.
RangeText(r, i, n) ==
  LET k == 3 + slaves
      in1 == Indent(n)
      in2 == in1 + Indent(k)
  IN <<Line(Width(n) - Width(i), "integer", r.min),
       Line(in1 + Width(k) - Width(2), "integer", r.max)>> \o
     FlattenSeq([e \in 1..k - 2 |->
       <<Line(in1 + Width(k) - Width(e + 2), "address",
              IF e = 1 THEN r.master ELSE Replica),
         Line(in2, "integer", Port)>>])

Text ==
  LET reply == Ranges
      n == Len(reply)
  IN IF n = 0 THEN <<Line(0, "empty", 0)>>
     ELSE FlattenSeq([i \in 1..n |-> RangeText(reply[i], i, n)])

-----------------------------------------------------------------------------
(***************************************************************************)
(* parseSlots.                                                             *)
(***************************************************************************)
NoAddress == [of |-> NoOne, whole |-> TRUE]
NoPlace == [ip |-> NoAddress, port |-> 0]

\* The address is taken from three bytes before its first point.
Address(a) == [of |-> a, whole |-> a = Replica \/ digits[a] = 3]

SlotInit ==
  /\ owner \in Owners /\ digits \in Digits1 /\ slaves \in Slaves
  /\ lines = Text
  /\ infos = <<>> /\ parser = "runs"

This == lines[1]
Running == parser = "runs" /\ lines # <<>>
LastInfo == infos[Len(infos)]
SetLast(info) == infos' = [infos EXCEPT ![Len(infos)] = info]

\* A line that starts with its index: the two bounds of a range.  Of "(empty
\* list or set)" both are read as 0.
ParseBounds ==
  /\ Running /\ This.blanks = 0
  /\ infos' = Append(infos, [min |-> This.val,
                             max |-> IF Len(lines) > 1 THEN lines[2].val ELSE 0,
                             master |-> NoPlace, slave |-> <<>>])
  /\ lines' = SubSeq(lines, 3, Len(lines))
  /\ UNCHANGED <<parser, clusterVars>>

\* Before the first range there is nothing to add an address or a port to.
ParseAddress ==
  /\ Running /\ This.blanks = 3
  /\ IF infos = <<>> THEN parser' = "undefined" /\ UNCHANGED infos
     ELSE /\ SetLast(LET a == Address(This.val)
                    IN IF LastInfo.master.ip = NoAddress
                       THEN [LastInfo EXCEPT !.master.ip = a]
                       ELSE [LastInfo EXCEPT !.slave =
                               Append(@, [ip |-> a, port |-> 0])])
          /\ UNCHANGED parser
  /\ lines' = Tail(lines)
  /\ UNCHANGED clusterVars

\* The number after "(integer)", which the line of an address does not have.
NoPlaceForPort ==
  infos = <<>> \/ (LastInfo.master.port # 0 /\ LastInfo.slave = <<>>)
ParsePort ==
  /\ Running /\ This.blanks > 3
  /\ IF NoPlaceForPort THEN parser' = "undefined" /\ UNCHANGED infos
     ELSE /\ SetLast(LET port == IF This.kind = "integer" THEN This.val ELSE 0
                    IN IF LastInfo.master.port = 0
                       THEN [LastInfo EXCEPT !.master.port = port]
                       ELSE [LastInfo EXCEPT
                               !.slave[Len(LastInfo.slave)].port = port])
          /\ UNCHANGED parser
  /\ lines' = Tail(lines)
  /\ UNCHANGED clusterVars

\* Any other line is looked at again and again.
ParseNothing ==
  /\ Running /\ This.blanks \in {1, 2}
  /\ parser' = "loops"
  /\ UNCHANGED <<clusterVars, lines, infos>>

SlotNext == ParseBounds \/ ParseAddress \/ ParsePort \/ ParseNothing

\* parseSlots runs to its end in the callback of the reply.
SlotSpec == SlotInit /\ [][SlotNext]_slotVars /\ WF_slotVars(SlotNext)

\* getRightCliByKey: the first range with the slot names the client.  (If there
\* is none the name is what the stack held.)
Fitting(slot) ==
  {i \in DOMAIN infos : infos[i].min <= slot /\ slot <= infos[i].max}
Route(slot) ==
  infos[CHOOSE i \in Fitting(slot) : \A j \in Fitting(slot) : i <= j].master

-----------------------------------------------------------------------------
\* Part of the key between braces, and nothing else, is hashed by the server.
Tagged(key) ==
  \E i, j \in 1..Len(key) :
    /\ key[i] = OpenBrace /\ key[j] = CloseBrace /\ i + 1 < j
    /\ \A k \in 1..j - 1 : /\ key[k] = OpenBrace => k >= i
                          /\ key[k] = CloseBrace => k < i

ManyLines == Len(Ranges) >= Base \/ 3 + slaves >= Base
PlainKeys == {key \in Keys : ~Tagged(key)}
SlotsOfKeys == {<<ClientSlot(key), KeyHashSlot(key)>> : key \in PlainKeys}
Parsed == parser = "runs" /\ lines = <<>>

(***************************************************************************)
(* parseSlots comes to the end of every reply with few ranges and few      *)
(* replicas.  (With ten ranges the first line starts with a blank, and it  *)
(* loops for ever in the callback; with ten elements in a range the lines  *)
(* of addresses are taken for ports.)                                      *)
(***************************************************************************)
ParseEnds == ~ManyLines ~> Parsed

(***************************************************************************)
(* parseSlots reads no other reply: with few ranges and replicas it        *)
(* neither loops nor writes out of bounds on the way, and with more it     *)
(* never comes to the end, so that m_slots is never complete.              *)
(***************************************************************************)
ReadsOnlyFewLines ==
  /\ ~ManyLines => parser = "runs"
  /\ ManyLines /\ Ranges # <<>> => ~Parsed

(***************************************************************************)
(* For a key without a tag the client sends to the master the server would *)
(* name, if the first number of its address has three digits, and finds no *)
(* range if the slot has no owner.  (With a tag it is sent to the master   *)
(* of another slot and redirected each time.)                              *)
(***************************************************************************)
KeysFindTheirMaster ==
  Parsed /\ infos # <<>> /\ Ranges # <<>> =>
    \A s \in SlotsOfKeys :
      LET m == owner[s[2]] IN
      IF m = NoOne THEN Fitting(s[1]) = {}
      ELSE /\ Fitting(s[1]) # {}
           /\ digits[m] = 3 =>
                Route(s[1]) = [ip |-> [of |-> m, whole |-> TRUE], port |-> Port]
=============================================================================

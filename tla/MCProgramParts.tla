--------------------------- MODULE MCProgramParts ---------------------------
(***************************************************************************)
(* Three parts of the program that share no state, in one run: a behaviour *)
(* is one of SlotTable, of RecordPath or of SocketMgr, and the other two   *)
(* stay in an initial or final state of theirs.                            *)
(***************************************************************************)
EXTENDS SlotTable, KeyCrc, RecordPath, SocketMgr

CONSTANTS m1, m2, c1, c2, c3
VARIABLE part

TwoMasters == <<m1, m2>>
\* Two masters that share all slots, or one and slots without an owner.
AllOwners == [0..NSlots - 1 -> {m1, m2}] \cup
             {[s \in 0..NSlots - 1 |-> IF s \in free THEN NoOne ELSE m1] :
                free \in SUBSET (0..NSlots - 1)}
SomeDigits == {[m \in {m1, m2} |-> IF m = m1 THEN 3 ELSE d] : d \in 2..3}
ShortKeys == UNION {[1..n -> {97, OpenBrace, CloseBrace}] : n \in 0..4}
\* Bytes, with the one that ends a string, up to beyond the modulus.
ShortRecords == UNION {[1..n -> {Zero, 1, 2}] : n \in 0..5}
TheNil == <<1, 2>>

NoSlots == /\ owner = [s \in 0..NSlots - 1 |-> NoOne]
           /\ digits = [m \in {m1, m2} |-> 3] /\ slaves = 0
           /\ lines = <<>> /\ infos = <<>> /\ parser = "runs"
NoRecord == /\ record = <<>> /\ account = Account /\ packet = NoPacket
            /\ cached = NoField /\ got = {}

Init == \/ part = "slots" /\ SlotInit /\ NoRecord /\ MgrInit
        \/ part = "record" /\ NoSlots /\ PathInit /\ MgrInit
        \/ part = "sockets" /\ NoSlots /\ NoRecord /\ MgrInit

Slots == /\ part = "slots" /\ SlotNext
         /\ UNCHANGED <<part, pathVars, mgrVars>>
Path == /\ part = "record" /\ PathNext
        /\ UNCHANGED <<part, slotVars, mgrVars>>
Sockets == /\ part = "sockets" /\ MgrNext
           /\ UNCHANGED <<part, slotVars, pathVars>>
Loop == /\ part = "sockets" /\ MgrLoop
        /\ UNCHANGED <<part, slotVars, pathVars>>

vars == <<part, slotVars, pathVars, mgrVars>>
Spec == Init /\ [][Slots \/ Path \/ Sockets]_vars
             /\ WF_vars(Slots) /\ WF_vars(Loop)

\* The CRC of tool.cpp is the one the server uses, whose table and example are
\* in the comments of crc16.c.
CrcIsXmodem == lines = <<>> => TableIsXmodem
=============================================================================

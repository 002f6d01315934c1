SPECIFICATION Spec
CONSTANTS
  m1 = m1
  m2 = m2
  c1 = c1
  c2 = c2
  c3 = c3
  NoOne = NoOne
  Replica = Replica
  NSlots = 8
  Crc <- crc16
  Base = 5
  Masters <- TwoMasters
  Owners <- AllOwners
  Digits1 <- SomeDigits
  Slaves = {0, 1, 2}
  Keys <- ShortKeys
  Modulus = 4
  Records <- ShortRecords
  Nil <- TheNil
  Conns = {c1, c2, c3}
  Db = Db
  Listen = Listen
INVARIANTS CrcIsXmodem KeysFindTheirMaster ReadsOnlyFewLines CutOnce NoException FreedNeedsThree
PROPERTIES ParseEnds AllServed
\* The parser stops at the end of the reply, or when it crashes, and a record
\* comes to rest.
CHECK_DEADLOCK FALSE

------------------------------- MODULE Backlog -------------------------------
(***************************************************************************)
(* The replication backlog of a redis master (replication.c): a circular   *)
(* buffer of the last bytes of the stream of commands.  The stream is a    *)
(* sequence of cells, of which master_repl_offset is the length; a cell    *)
(* stands for a run of bytes that the buffer keeps together.               *)
(***************************************************************************)
EXTENDS Naturals, Sequences

\* A position in the buffer; i is less than twice its size.
Wrap(b, i) == IF i >= b.size THEN i - b.size ELSE i

NewBacklog(size, offset, nothing) ==
  [size |-> size, buf |-> [i \in 0..size - 1 |-> nothing],
   idx |-> 0, histlen |-> 0, off |-> offset + 1]

\* feedReplicationBacklog: offset is master_repl_offset with the new cell.
Longer(b) == IF b.histlen < b.size THEN b.histlen + 1 ELSE b.size
FeedBacklog(b, offset, cell) ==
  [size |-> b.size, buf |-> [b.buf EXCEPT ![b.idx] = cell],
   idx |-> Wrap(b, b.idx + 1), histlen |-> Longer(b), off |-> offset - Longer(b) + 1]

\* A command is at most three cells: SELECT and two of its own.
FeedCells(b, offset, cells) ==
  LET one == FeedBacklog(b, offset + 1, cells[1])
      two == FeedBacklog(one, offset + 2, cells[2])
  IN CASE Len(cells) = 1 -> one
       [] Len(cells) = 2 -> two
       [] OTHER -> FeedBacklog(two, offset + 3, cells[3])

\* masterTryPartialResynchronization: offset is what the slave asks for.
HasOffset(b, offset) == b.off <= offset /\ offset <= b.off + b.histlen

\* addReplyReplicationBacklog: what is sent to a slave that asks for offset.
FromBacklog_NoSkip(b, offset) ==
  LET skip == offset - b.off
      j == Wrap(b, b.idx + (b.size - b.histlen))
  IN [k \in 1..b.histlen - skip |-> b.buf[Wrap(b, j + (k - 1))]]
FromBacklog(b, offset) ==
  LET skip == offset - b.off
      j == Wrap(b, Wrap(b, b.idx + (b.size - b.histlen)) + skip)
  IN [k \in 1..b.histlen - skip |-> b.buf[Wrap(b, j + (k - 1))]]

-----------------------------------------------------------------------------
\* The buffer holds the end of the stream: its newest cell is just before idx.
Before(b, k) == IF k < b.idx THEN b.idx - 1 - k ELSE b.idx + b.size - 1 - k
Holds(b, stream) ==
  /\ b.histlen <= Len(stream) /\ b.off = Len(stream) - b.histlen + 1
  /\ \A k \in 0..b.histlen - 1 : b.buf[Before(b, k)] = stream[Len(stream) - k]

\* Every slave that may ask for an offset is sent the stream from there on.
SendsTheStream(b, stream) ==
  \A offset \in 1..Len(stream) + 1 :
    HasOffset(b, offset) =>
      FromBacklog(b, offset) = SubSeq(stream, offset, Len(stream))
=============================================================================

---------------------------- MODULE LineTransfer ----------------------------
(***************************************************************************)
(* One line from the master to a slave, or back: an order or a report.     *)
(* The writer writes it in one or more pieces, and the reader reads into a *)
(* buffer of cap bytes until the last byte it has is the end of the line,  *)
(* whatever pieces the network makes of it.                                *)
(*                                                                         *)
(* A byte is its position in the line, the last one being the newline:     *)
(* that tells a line that arrives from a line that is spoilt on the way.   *)
(* What a closed connection does to the two is in Campaign.tla.            *)
(***************************************************************************)
EXTENDS Integers, Sequences

\* A line of len bytes on its way: how many are written, which are in the
\* connection and which in the reader's buffer.
NoLine == [len |-> 0, written |-> 0, pipe |-> <<>>, buf |-> <<>>, at |-> "none"]

\* The writer has formatted a line of n bytes.
NewLine(n) == [NoLine EXCEPT !.len = n, !.at = "moving"]

\* What the next write of k bytes takes: response + written.
Piece(l, k) == [j \in 1 .. k |-> l.written + j]

\* How many bytes a write may take.
WriteSizes(l) == IF l.at = "moving" THEN 1 .. l.len - l.written ELSE {}

\* write has returned k.
Wrote(l, k) == [l EXCEPT !.pipe = @ \o Piece(l, k), !.written = @ + k]

\* How many bytes a read into what is left of the buffer may return.
ReadSizes(l, cap) ==
  {k \in 1 .. Len(l.pipe) : l.at = "moving" /\ k <= cap - Len(l.buf)}

\* Mutant: what a read returns is the line.
EndOfLine_AfterRead(l, buf) == buf # <<>>

\* buffer[totlaLength - 1] == '\n'
EndOfLine(l, buf) == buf[Len(buf)] = l.len

\* read has returned k.
Got(l, k) ==
  LET buf == l.buf \o SubSeq(l.pipe, 1, k)
  IN  [l EXCEPT !.buf = buf, !.pipe = SubSeq(@, k + 1, Len(@)),
                !.at = IF EndOfLine(l, buf) THEN "whole" ELSE @]

\* The buffer is full: a read of at most 0 bytes returns 0, which the reader
\* takes for the end of the connection.
ReadsNoMore(l, cap) == l.at = "moving" /\ Len(l.buf) = cap

GivenUp(l) == [l EXCEPT !.at = "lost"]

-----------------------------------------------------------------------------
\* The types of the parts of a line.
LineType == [len : Nat, written : Nat, pipe : Seq(Nat), buf : Seq(Nat),
             at : {"none", "moving", "whole", "lost"}]

\* However a line was cut into writes and reads, a reader that takes it for
\* whole has the line, all of it and nothing else, and a line is lost only if
\* it is longer than the buffer.
Intact(l, cap) ==
  /\ l.at = "whole" => /\ l.buf = [j \in 1 .. l.len |-> j]
                       /\ l.pipe = <<>> /\ l.written = l.len
  /\ l.at = "lost" => l.len > cap
=============================================================================

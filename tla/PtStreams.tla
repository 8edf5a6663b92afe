----------------------------- MODULE PtStreams -----------------------------
(***************************************************************************)
(* The buffered streams of ptypes: iobase, instm and outstm over a file    *)
(* (infile, outfile) or over memory (inmemory, outmemory).  A program      *)
(* writes a file through an output stream, and reads it through an input   *)
(* stream; the file position, the buffer and the position in the buffer    *)
(* are what the streams keep.  Positions count from 0, as in the code.     *)
(***************************************************************************)
EXTENDS Integers, Sequences, SequencesExt, FiniteSetsExt

CONSTANTS
  Chars, LF, CR,      \* the bytes of the file: LF, CR \in Chars
  bufsize,            \* the size of the buffers
  MaxFile,            \* bound: bytes of the file
  MaxSeeks,           \* bound: seeks of the output stream
  None

VARIABLES
  file, in, out,
  chunk,              \* what one ::read returns at most; 0 for inmemory
  content, at,        \* the bytes and the position, as the program sees them
  lost,               \* a write came short, or flush() came after a seek back
  seeks,
  last                \* what the last call on the input stream did

vars == <<file, in, out, chunk, content, at, lost, seeks, last>>

iobase == [active |-> FALSE, eof |-> TRUE, abspos |-> 0, buf |-> <<>>, bufpos |-> 0, failed |-> FALSE]

\* A new file to write, or a file of any content to read: infile, inmemory.
Init ==
  /\ at = 0 /\ lost = FALSE /\ seeks = 0 /\ last = None
  /\ \/ /\ file = <<>> /\ in = iobase /\ chunk = 0
        /\ out = [iobase EXCEPT !.active = TRUE, !.eof = FALSE]
     \/ /\ file \in UNION {[1..n -> Chars] : n \in 0..MaxFile}
        /\ out = iobase /\ chunk \in 0..bufsize
        /\ in = [iobase EXCEPT !.active = TRUE, !.eof = FALSE,
                               !.abspos = IF chunk = 0 THEN Len(file) ELSE 0,
                               !.buf = IF chunk = 0 THEN file ELSE <<>>]
  /\ content = file
-----------------------------------------------------------------------------
(* The output stream.                                                      *)

\* data over bytes from position p on; a gap is filled with zeros.
Overlay(bytes, p, data) ==
  [k \in 1..Max({Len(bytes), IF data = <<>> THEN 0 ELSE p + Len(data)}) |->
     IF k > p /\ k <= p + Len(data) THEN data[k - p]
     ELSE IF k <= Len(bytes) THEN bytes[k] ELSE 0]

tellx(o) == o.abspos + o.bufpos

\* rawwrite of the first n bytes of the buffer and bufclear: what bufvalidate
\* of a full or a flushed buffer does.
bufvalidate(o, f, n) ==
  [o |-> [o EXCEPT !.abspos = @ + n, !.buf = <<>>, !.bufpos = 0, !.eof = @ \/ n < Len(o.buf)],
   f |-> Overlay(f, o.abspos, SubSeq(o.buf, 1, n))]

\* Faulty: the buffer is cut at the place of the write.
Store_Cuts(o, data) ==
  [o EXCEPT !.buf = SubSeq(@, 1, o.bufpos) \o data, !.bufpos = @ + Len(data)]

\* bufadvance
Store(o, data) ==
  [o EXCEPT !.buf = Overlay(@, o.bufpos, data), !.bufpos = @ + Len(data)]

\* write, put: as much as the buffer holds, a raw write when it is full.
RECURSIVE Write(_, _, _)
Write(o, f, data) ==
  IF data = <<>> THEN [o |-> o, f |-> f]
  ELSE IF o.bufpos >= bufsize
  THEN LET r == bufvalidate(o, f, Len(o.buf)) IN Write(r.o, r.f, data)
  ELSE LET n == Min({Len(data), bufsize - o.bufpos})
       IN Write(Store(o, SubSeq(data, 1, n)), f, SubSeq(data, n + 1, Len(data)))

write(data) ==
  /\ out.active
  /\ at + Len(data) <= MaxFile
  /\ LET r == Write(out, file, data) IN out' = r.o /\ file' = r.f
  /\ content' = Overlay(content, at, data)
  /\ at' = at + Len(data)
  /\ UNCHANGED <<in, chunk, lost, seeks, last>>

\* flush: the place to go on is the end of what was in the buffer, not where a
\* seek back had been.  The disk may be full.
flush ==
  /\ out.active /\ out.buf # <<>>
  /\ \E n \in {0, Len(out.buf)} :
       /\ LET r == bufvalidate(out, file, n) IN out' = r.o /\ file' = r.f
       /\ lost' = (lost \/ n < Len(out.buf) \/ out.bufpos < Len(out.buf))
  /\ UNCHANGED <<in, chunk, content, at, seeks, last>>

\* outstm::seekx within the buffer, else iobase::seekx: flush and doseek.
seekOut(newpos) ==
  /\ out.active /\ seeks < MaxSeeks
  /\ seeks' = seeks + 1
  /\ LET p == newpos - out.abspos
         r == bufvalidate(out, file, Len(out.buf))
     IN IF p >= 0 /\ p <= out.bufpos
        THEN out' = [out EXCEPT !.bufpos = p, !.eof = FALSE] /\ UNCHANGED file
        ELSE /\ out' = [r.o EXCEPT !.abspos = newpos, !.eof = FALSE]
             /\ file' = r.f
  /\ at' = newpos
  /\ UNCHANGED <<in, chunk, content, lost, last>>

close ==
  /\ out.active
  /\ LET r == bufvalidate(out, file, Len(out.buf)) IN file' = r.f /\ out' = [iobase EXCEPT !.abspos = r.o.abspos]
  /\ UNCHANGED <<in, chunk, content, at, lost, seeks, last>>
-----------------------------------------------------------------------------
(* The input stream: functions on its record i.                            *)

tellIn(i) == i.abspos - Len(i.buf) + i.bufpos

\* bufvalidate of an input stream: a raw read into the empty buffer.
Refill(i) ==
  IF chunk = 0 THEN [i EXCEPT !.eof = i.bufpos >= Len(i.buf)]
  ELSE LET n == Min({chunk, Len(file) - i.abspos}) IN
       IF n <= 0 THEN [i EXCEPT !.buf = <<>>, !.bufpos = 0, !.eof = TRUE]
       ELSE [i EXCEPT !.buf = SubSeq(file, i.abspos + 1, i.abspos + n), !.bufpos = 0,
                      !.abspos = @ + n]

get_eof(i) == IF ~i.eof /\ i.bufpos >= Len(i.buf) THEN Refill(i) ELSE i
preview(i) == LET j == get_eof(i) IN [i |-> j, c |-> IF j.eof THEN 0 ELSE j.buf[j.bufpos + 1]]
Advance(i, n) == [i EXCEPT !.bufpos = @ + n]
get(i) == LET p == preview(i) IN IF p.i.eof THEN p.i ELSE Advance(p.i, 1)

\* Faulty: a CR at the end of the buffer is taken for the whole end of line.
skipeol_InBuffer(i) ==
  LET p == preview(i)
      j == get(p.i)
  IN CASE p.c = LF -> j
       [] p.c = CR -> IF j.bufpos < Len(j.buf) /\ j.buf[j.bufpos + 1] = LF THEN get(j) ELSE j
       [] OTHER -> p.i

skipeol(i) ==
  LET p == preview(i)
      q == preview(get(p.i))
  IN CASE p.c = LF -> get(p.i)
       [] p.c = CR -> IF q.c = LF THEN get(q.i) ELSE q.i
       [] OTHER -> p.i

\* How many characters of the buffer from bufpos on are in set, at most count.
Run(i, set, count) ==
  LET n == Min({count, Len(i.buf) - i.bufpos})
  IN Max({k \in 0..n : \A j \in 1..k : i.buf[i.bufpos + j] \in set})

\* The loops of token, skiptoken, read and skip: got is what they return.  A
\* string token longer than limit is an error.
RECURSIVE Token(_, _, _, _, _)
Token(i0, set, count, got, throws) ==
  LET i == get_eof(i0) IN
  IF (count = 0 /\ ~throws) \/ i.eof THEN [i |-> IF count = 0 /\ ~throws THEN i0 ELSE i, got |-> got]
  ELSE LET n == Run(i, set, IF throws THEN Len(i.buf) ELSE count)
           j == Advance(i, n)
           word == got \o SubSeq(i.buf, i.bufpos + 1, i.bufpos + n)
       IN IF n > count
          THEN [i |-> [Advance(i, count) EXCEPT !.eof = TRUE, !.failed = TRUE], got |-> got]
          ELSE IF i.bufpos + n < Min({Len(i.buf), IF throws THEN Len(i.buf) ELSE i.bufpos + count})
          THEN [i |-> j, got |-> word]
          ELSE Token(j, set, count - n, word, throws)

LineChars == (Chars \cup {0}) \ {LF, CR}

Called(op, r, count) ==
  /\ in' = r.i
  /\ last' = [op |-> op, from |-> tellIn(in), to |-> tellIn(r.i), got |-> r.got, count |-> count,
              eof |-> in.eof]
  /\ UNCHANGED <<file, out, chunk, content, at, lost, seeks>>

Open == in.active /\ ~in.failed

line(limit) ==
  /\ Open
  /\ LET r == Token(in, LineChars, limit, <<>>, TRUE) IN
     Called("line", [r EXCEPT !.i = IF r.i.failed THEN @ ELSE skipeol(@)], limit)

lineBuf(size) ==
  /\ Open
  /\ LET r == Token(in, LineChars, size, <<>>, FALSE)
     IN Called("linebuf", [r EXCEPT !.i = skipeol(@)], size)

\* read and skip; skip drops what read returns.
read(count) == Open /\ Called("read", Token(in, Chars \cup {0}, count, <<>>, FALSE), count)

\* skipline with skiptoken
skipline ==
  /\ Open
  /\ LET p == preview(in)
         r == IF p.i.eof \/ p.c \in {LF, CR} THEN [i |-> p.i, got |-> <<>>]
              ELSE Token(p.i, LineChars, MaxFile, <<>>, FALSE)
     IN Called("line", [r EXCEPT !.i = skipeol(@)], MaxFile)

putback ==
  /\ Open /\ in.bufpos > 0
  /\ in' = [in EXCEPT !.bufpos = @ - 1, !.eof = FALSE]
  /\ last' = None
  /\ UNCHANGED <<file, out, chunk, content, at, lost, seeks>>

\* instm::seekx and inmemory::seekx: within the buffer, else doseek.
seekIn(newpos) ==
  /\ in.active
  /\ LET p == newpos - (in.abspos - Len(in.buf)) IN
     in' = IF p >= 0 /\ p <= Len(in.buf)
           THEN [in EXCEPT !.bufpos = p, !.eof = FALSE, !.failed = FALSE]
           ELSE [in EXCEPT !.buf = <<>>, !.bufpos = 0, !.eof = FALSE, !.failed = FALSE,
                           !.abspos = newpos]
  /\ last' = None
  /\ UNCHANGED <<file, out, chunk, content, at, lost, seeks>>

Next ==
  \/ \E c \in Chars : write(<<c>>)
  \/ \E c, d \in Chars : write(<<c, d, c>>)
  \/ flush \/ \E p \in 0..Len(content) : seekOut(p)
  \/ close
  \/ \E n \in 1..2 : line(n) \/ lineBuf(n) \/ read(n)
  \/ skipline \/ putback
  \/ \E p \in 0..Len(file) : seekIn(p)

Spec == Init /\ [][Next]_vars
-----------------------------------------------------------------------------
(* The file and what is still in the buffer, laid over it, are what the    *)
(* program wrote, each byte at the place where it was written: seeks       *)
(* within the buffer, writes larger than it and raw writes in between do   *)
(* not show.  (A flush() after a seek back moves on to the end of the      *)
(* buffer, and a full disk loses what the buffer held.)                    *)
WritesKeepTheirPlace ==
  ~lost => /\ Overlay(file, out.abspos, out.buf) = content
           /\ out.active => tellx(out) = at

\* The position behind the line that begins at from.
LineEnd(from, count) ==
  LET stop == Min({k \in from..Len(file) : k = Len(file) \/ file[k + 1] \in {LF, CR}})
      e == IF count < stop - from THEN from + count ELSE stop
  IN IF e < Len(file) /\ file[e + 1] = CR
     THEN IF e + 1 < Len(file) /\ file[e + 2] = LF THEN e + 2 ELSE e + 1
     ELSE IF e < Len(file) /\ file[e + 1] = LF THEN e + 1 ELSE e

(* An input stream gives the bytes of the file from its position on and    *)
(* ends behind them, however the raw reads cut the file: a line ends       *)
(* behind its LF, CR or CR LF even when the buffer ends between the two.   *)
ReadsFollowTheFile ==
  (last # None /\ ~last.eof /\ ~in.failed) =>
    /\ last.got = SubSeq(file, last.from + 1, last.from + Len(last.got))
    /\ last.op = "read" => /\ last.to = last.from + Len(last.got)
                           /\ Len(last.got) = Min({last.count, Len(file) - last.from})
    /\ last.op \in {"line", "linebuf"} => last.to = LineEnd(last.from, last.count)
=============================================================================

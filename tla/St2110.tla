-------------------------------- MODULE St2110 --------------------------------
(***************************************************************************)
(* Source/AvFifo/DtSt2110Video.c, the sending side: a frame of ST 2110-20  *)
(* video cut into packets, as DtSt2110VideoTx_Packetize cuts it.           *)
(*                                                                         *)
(* A format is a record: rows, rowSize and payload (PayloadSize), the      *)
(* latter two counted in pixel groups; interlaced and oneLine              *)
(* (OneLinePerPacket) are BOOLEAN.  Interlaced stands for PsF as well.     *)
(***************************************************************************)
EXTENDS Integers, Sequences

Least(a, b) == IF a < b THEN a ELSE b

\* Fields are numbered 0 and 1; progressive video has frames, with field 0.
RowsInField(f, field) ==
  IF ~f.interlaced THEN f.rows
  ELSE f.rows \div 2 + (IF field = 0 THEN f.rows % 2 ELSE 0)

NumRowHeaders(f, rowBytesToDo, rowsToDo) ==
  CASE f.oneLine \/ rowBytesToDo >= f.payload \/ rowsToDo <= 1 -> 1
    [] OTHER -> IF f.payload - rowBytesToDo <= f.rowSize \/ rowsToDo = 2 THEN 2 ELSE 3

SegmentBytes(f, offset, used) == Least(f.rowSize - offset, f.payload - used)

\* Where the bytes after n more of row at.row start.
After(f, at, n) ==
  IF at.offset + n = f.rowSize THEN [row |-> at.row + 1, offset |-> 0]
  ELSE [at EXCEPT !.offset = @ + n]

\* The segments, parts of rows, under so many row headers from at, with used bytes before them.
RECURSIVE Segments(_, _, _, _)
Segments(f, at, used, headers) ==
  IF headers = 0 THEN <<>>
  ELSE LET n == SegmentBytes(f, at.offset, used)
       IN <<[row |-> at.row, offset |-> at.offset, length |-> n]>>
            \o Segments(f, After(f, at, n), used + n, headers - 1)

\* The packets of a field from at on.
RECURSIVE PacketsFrom(_, _, _)
PacketsFrom(f, field, at) ==
  LET rowsToDo == RowsInField(f, field) - at.row
      segments == Segments(f, at, 0, NumRowHeaders(f, f.rowSize - at.offset, rowsToDo))
      last     == segments[Len(segments)]
      then     == After(f, [row |-> last.row, offset |-> last.offset], last.length)
      marker   == then.row = RowsInField(f, field)
      packet   == [field |-> field, segments |-> segments, marker |-> marker]
  IN IF marker THEN <<packet>> ELSE <<packet>> \o PacketsFrom(f, field, then)

Packetize(f, field) == PacketsFrom(f, field, [row |-> 0, offset |-> 0])
===============================================================================

-------------------------------- MODULE MCAvRx --------------------------------
(* Streams for TLC, as St2110 cuts them: of frames of two rows in three    *)
(* packets, whose second packet holds parts of both, and of fields of two  *)
(* rows and of one; and of frames of two rows and of one, with a packet    *)
(* for each row.                                                           *)
EXTENDS AvRx, St2110

\* The packets of two frames or of both fields.
Stream(format) ==
  Packetize(format, 0) \o Packetize(format, IF format.interlaced THEN 1 ELSE 0)

Format(rows, rowSize, payload, interlaced) ==
  [rows |-> rows, rowSize |-> rowSize, payload |-> payload, interlaced |-> interlaced,
   oneLine |-> FALSE]

\* TLC evaluates the constant TwoFormats once, and a definition that stands for Streams at every use.
TwoFormats == <<Stream(Format(2, 3, 2, FALSE)), Stream(Format(3, 2, 3, TRUE))>>
MCStreams == TwoFormats
MCSmaller == <<Stream(Format(2, 2, 2, FALSE)), Stream(Format(1, 2, 2, FALSE))>>

SmallFormats ==
  {f \in [rows : 1..5, rowSize : 1..4, payload : 1..9, interlaced : BOOLEAN, oneLine : BOOLEAN] :
     f.interlaced => f.rows > 1}

\* What the sender cuts is a stream as the receiver takes one to be, whatever the payload.
ASSUME StreamsAreCut ==
  \A f \in SmallFormats : Stream(f) \in Seq(Packets) /\ IsStream(Stream(f))
===============================================================================

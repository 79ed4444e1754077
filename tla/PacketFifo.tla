------------------------------ MODULE PacketFifo ------------------------------
(***************************************************************************)
(* What an ASI input promises a program that reads (Channel/DtAsiRx.h): a  *)
(* FIFO of bytes.  What packets hold goes in whole and in order, as long   *)
(* as there is room; what a read takes is the oldest, and comes out once.  *)
(*                                                                         *)
(* A byte is a record: the packet it is of, its place in it from 1 on      *)
(* (at), and the place of the packet's last (of).                          *)
(***************************************************************************)
EXTENDS Naturals, Sequences

CONSTANT Limit   \* the bytes the FIFO holds

VARIABLES fifo,   \* the bytes a read would get
          taken   \* the bytes a read got in the last step

Init == fifo = <<>> /\ taken = <<>>

\* Each byte follows in its packet on the one before, or starts a packet after the last of one.
WholePackets(bytes) ==
  /\ bytes # <<>> => bytes[1].at = 1 /\ bytes[Len(bytes)].at = bytes[Len(bytes)].of
  /\ \A i \in 1..Len(bytes) - 1 :
       IF bytes[i].at = bytes[i].of
       THEN bytes[i + 1].at = 1
       ELSE bytes[i + 1] = [bytes[i] EXCEPT !.at = @ + 1]

\* A call first puts in what has come meanwhile; a read then takes what it can.
PutAndTake ==
  LET before == fifo
      after == taken' \o fifo'
      came == SubSeq(after, Len(before) + 1, Len(after))
  IN /\ Len(after) >= Len(before) /\ SubSeq(after, 1, Len(before)) = before
     /\ WholePackets(came)
     /\ Len(after) <= Limit

Clear == fifo' = <<>> /\ taken' = <<>>

Spec == Init /\ [][PutAndTake \/ Clear]_<<fifo, taken>>
===============================================================================

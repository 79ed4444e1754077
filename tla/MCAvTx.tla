-------------------------------- MODULE MCAvTx --------------------------------
(* A video frame that may need more words than it has, a frame that needs what it has,  *)
(* and one the buffer cannot hold.                                                      *)
EXTENDS AvTx
CONSTANTS f1, f2, f3

MCFrames == {f1, f2, f3}
MCShape == [frame \in MCFrames |-> CASE frame = f1 -> [words |-> 2, need |-> 3]
                                     [] frame = f2 -> [words |-> 3, need |-> 3]
                                     [] frame = f3 -> [words |-> Size, need |-> Size]]
===============================================================================

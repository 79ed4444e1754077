------------------------------ MODULE ChannelUse ------------------------------
(***************************************************************************)
(* What a channel promises the threads that share it (cdtapi.h,            *)
(* Source/Channel): a call that waits for data finds the channel it        *)
(* started on when it looks again.  While one is busy the channel is       *)
(* neither detached nor freed, and no second call starts to wait.          *)
(***************************************************************************)

VARIABLES alive,     \* the channel's memory has not been freed
          attached,  \* the channel has a port
          busy       \* a call is between its start and its return

channel == <<alive, attached, busy>>

Init == alive = TRUE /\ attached = FALSE /\ busy = FALSE

Alloc == /\ ~alive
         /\ alive' = TRUE
         /\ UNCHANGED <<attached, busy>>

Attach == /\ alive /\ ~attached
          /\ attached' = TRUE
          /\ UNCHANGED <<alive, busy>>

Start == /\ attached /\ ~busy
         /\ busy' = TRUE
         /\ UNCHANGED <<alive, attached>>

Return == /\ busy
          /\ busy' = FALSE
          /\ UNCHANGED <<alive, attached>>

Detach == /\ attached /\ ~busy
          /\ attached' = FALSE
          /\ UNCHANGED <<alive, busy>>

Free == /\ alive /\ ~busy
        /\ alive' = FALSE /\ attached' = FALSE
        /\ UNCHANGED busy

Next == Alloc \/ Attach \/ Start \/ Return \/ Detach \/ Free

Spec == Init /\ [][Next]_channel
===============================================================================

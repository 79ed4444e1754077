------------------------------- MODULE MCSdiRx -------------------------------
(* The instances of SdiRx that TLC checks. *)
EXTENDS SdiRx
===============================================================================

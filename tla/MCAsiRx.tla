----------------------------- MODULE MCAsiRx -----------------------------
(* The instance of AsiRx that TLC checks. *)
EXTENDS AsiRx
==========================================================================

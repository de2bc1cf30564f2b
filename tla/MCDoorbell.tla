----------------------------- MODULE MCDoorbell -----------------------------
(* Two sides of one visit, a few attempts. *)
EXTENDS Doorbell
=============================================================================
